---- MODULE Spec2Model ----
(***************************************************************************)
(* A model of the Durable actor of cloudflare-wx-api                       *)
(* (src/src/utils/shard.d.ts, class Durable):                              *)
(*   - the auth-code broker: #CodeUidMap, #UidCodeMap, #expireAuthCode,    *)
(*     handleGetCodeByUid, handleGetUidByCode;                             *)
(*   - the login push-stream registry: #Clients, #writeSafe,               *)
(*     #setupHeartbeat, #closeConnection, handleAcceptSSE,                 *)
(*     handleQrcodeLogin;                                                  *)
(*   - the log channel and the persisted store: #LoggerClients,            *)
(*     handleLoggerSSE, #broadcastLog, #broadcastSessionLog,               *)
(*     handleLogInsert, handleSessionLogInsert, handleUserTouch,           *)
(*     handleUserAddTokens, handleAuthLogInsert, handleConversationInsert, *)
(*     with their callers Logger, MessagePipeline and actionText.          *)
(* The actor is single-threaded: one action of the model is one run of the *)
(* event loop from a callback's entry (or an await's resumption) to its    *)
(* next suspension on a pending promise.                                   *)
(***************************************************************************)
EXTENDS Integers, Sequences, FiniteSets, TLC

VARIABLES
    CodeUidMap,     \* #CodeUidMap: code -> uid
    UidCodeMap,     \* #UidCodeMap: uid -> code
    expiryTimers,   \* pending setTimeout callbacks of #expireAuthCode, in firing order
    authRet,        \* the last completed broker call or timer firing and what it returned
    authPrev,       \* the one before it
    AuthExpireSecs, \* env.AuthExpireSecs
    Clients,        \* #Clients: ticket -> writer
    writers,        \* the writers handleAcceptSSE created, in order: ticket, stream state, chunks written
    heartbeats,     \* per connection, the closure of #setupHeartbeat: count and where `next` stands
    readyWrites,    \* per connection, the setTimeout(..., 0) write of the code-100 event
    pushes,         \* the handleQrcodeLogin calls suspended on the code-200 write, in call order
    pushRet,        \* the last handleQrcodeLogin call that returned, and what it returned
    pushCount,      \* the handleQrcodeLogin calls made
    faults,         \* the writes that did not resolve and the client aborts so far
    closeTasks,     \* the #closeConnection calls suspended on an await, counted per (ticket, writer, await)
    LoggerClients,  \* #LoggerClients: clientId -> writer
    logWriters,     \* the writers handleLoggerSSE created, in order
    logs,           \* table `logs`
    sessionLogs,    \* table `session_logs`
    users,          \* table `users`: uid -> row
    authLogs,       \* table `auth_logs`
    conversations,  \* table `conversations`
    requests,       \* the actionText requests in progress: uid, input, output, position
    storeRet,       \* the last completed store operation and what it returned
    now,            \* Date.now(), as the number of store operations so far
    queryRet,       \* the last query of the admin API: its arguments and what it returned
    sessionCalls,   \* the insertSessionLog calls that returned: the steps passed and the id returned
    ChatHistory,    \* #ChatHistory: uid -> messages
    messages,       \* table `messages`
    chatRet,        \* the last chat-history call and what it returned
    appends,        \* the number of handleUpdateChatHistory calls made
    AesMode,        \* env.AesMode
    inbound,        \* the messages handed to action(): each one's pipeline, reply and commit
    calls           \* the handleLogInsert, handleSessionLogInsert and handleUserTouch calls made: each one's uid and position

authVars == <<CodeUidMap, UidCodeMap, expiryTimers, authRet, authPrev>>

loginVars == <<Clients, writers, heartbeats, readyWrites, pushes, pushRet, pushCount, faults, closeTasks>>

storeVars == <<LoggerClients, logWriters, logs, sessionLogs, users, authLogs, conversations,
               requests, storeRet, now>>

adminVars == <<queryRet, sessionCalls, AesMode, inbound>>

chatVars == <<ChatHistory, messages, chatRet, appends>>

touchVars == <<calls>>

vars == <<CodeUidMap, UidCodeMap, expiryTimers, authRet, authPrev, AuthExpireSecs,
          Clients, writers, heartbeats, readyWrites, pushes, pushRet, pushCount, faults, closeTasks,
          LoggerClients, logWriters, logs, sessionLogs, users, authLogs, conversations,
          requests, storeRet, now, queryRet, sessionCalls,
          ChatHistory, messages, chatRet, appends, AesMode, inbound, calls>>

\* ------------------------------------------------------------------ domains

\* Values of xmlMsg.FromUserName; handleQrcodeLogin calls meet them in this order.
UidNames == <<"u1", "u2">>

Uids == {UidNames[i] : i \in DOMAIN UidNames}

\* Values of Utils.random_string(6, "1234566678888999"), cut to two.
Codes == {"c1", "c2"}

\* undefined
None == "none"

\* At most this many expiry callbacks are pending at once.
MaxTimers == 3

\* Values of Utils.random_string(#TicketSize), named "t1", "t2", ... in the
\* order handleAcceptSSE first draws them.
NumTickets == 2

TicketNames == <<"t1", "t2", "t3", "t4">>

Tickets == {TicketNames[i] : i \in 1..NumTickets}

\* At most this many handleAcceptSSE calls, and this many handleQrcodeLogin calls.
MaxConns == 2

MaxPushes == 1

\* At most this many chunks are written to all writers together.
MaxWrites == 5

\* At most this many writes time out or reject and clients abort, together.
MaxFaults == 1

\* env.AuthExpireSecs is configuration: one value for each #MaxTimes of 0..MaxHeartbeats.
MaxHeartbeats == 2

ExpireSecsChoices == {3 * k + 2 : k \in 0..MaxHeartbeats}

\* ------------------------------------------------------------------ Map

MapSet(m, k, v) == [x \in DOMAIN m \cup {k} |-> IF x = k THEN v ELSE m[x]]

MapDelete(m, k) == [x \in DOMAIN m \ {k} |-> m[x]]

MapGet(m, k) == IF k \in DOMAIN m THEN m[k] ELSE None

EmptyMap == [x \in {} |-> None]

\* ------------------------------------------------------------------ auth-code broker

NoCall == [op |-> "init", uid |-> None, code |-> None, fresh |-> FALSE]

AuthInit ==
    /\ CodeUidMap = EmptyMap
    /\ UidCodeMap = EmptyMap
    /\ expiryTimers = << >>
    /\ authRet = NoCall
    /\ authPrev = NoCall

Returned(r) ==
    /\ authRet' = r
    /\ authPrev' = authRet

\* expireCallback with the second delete forgotten.
expireCallbackCodeOnly(t) ==
    /\ CodeUidMap' = MapDelete(CodeUidMap, t.code)
    /\ UidCodeMap' = UidCodeMap

\* The callback #expireAuthCode(code, uid) hands to setTimeout: both deletes,
\* whatever the maps hold by then.
expireCallback(t) ==
    /\ CodeUidMap' = MapDelete(CodeUidMap, t.code)
    /\ UidCodeMap' = MapDelete(UidCodeMap, t.uid)

\* All callbacks are scheduled with the same delay (#Expire), so they fire in
\* the order they were scheduled; the time between two events is arbitrary.
expireAuthCode ==
    /\ expiryTimers # << >>
    /\ expireCallback(Head(expiryTimers))
    /\ expiryTimers' = Tail(expiryTimers)
    /\ Returned([op |-> "expire", uid |-> Head(expiryTimers).uid,
                 code |-> Head(expiryTimers).code, fresh |-> FALSE])

\* handleGetCodeByUid(uid): the live code of uid, else a random code that is
\* not a key of #CodeUidMap (the while loop), registered both ways, with its
\* expiry scheduled.
handleGetCodeByUid(uid) ==
    IF uid \in DOMAIN UidCodeMap
    THEN /\ Returned([op |-> "issue", uid |-> uid, code |-> UidCodeMap[uid], fresh |-> FALSE])
         /\ UNCHANGED <<CodeUidMap, UidCodeMap, expiryTimers>>
    ELSE /\ Len(expiryTimers) < MaxTimers
         /\ \E code \in Codes \ DOMAIN CodeUidMap :
               /\ CodeUidMap' = MapSet(CodeUidMap, code, uid)
               /\ UidCodeMap' = MapSet(UidCodeMap, uid, code)
               /\ expiryTimers' = Append(expiryTimers, [code |-> code, uid |-> uid])
               /\ Returned([op |-> "issue", uid |-> uid, code |-> code, fresh |-> TRUE])

\* handleGetUidByCode(code): undefined on a miss; on a hit both deletes and the uid.
handleGetUidByCode(code) ==
    IF code \notin DOMAIN CodeUidMap
    THEN /\ Returned([op |-> "consume", uid |-> None, code |-> code, fresh |-> FALSE])
         /\ UNCHANGED <<CodeUidMap, UidCodeMap, expiryTimers>>
    ELSE /\ CodeUidMap' = MapDelete(CodeUidMap, code)
         /\ UidCodeMap' = MapDelete(UidCodeMap, CodeUidMap[code])
         /\ UNCHANGED expiryTimers
         /\ Returned([op |-> "consume", uid |-> CodeUidMap[code], code |-> code, fresh |-> FALSE])

IssueCode ==
    /\ \E uid \in Uids : handleGetCodeByUid(uid)
    /\ UNCHANGED <<AuthExpireSecs, loginVars, storeVars, adminVars, chatVars, touchVars>>

ConsumeCode ==
    /\ \E code \in Codes : handleGetUidByCode(code)
    /\ UNCHANGED <<AuthExpireSecs, loginVars, storeVars, adminVars, chatVars, touchVars>>

ExpireCode ==
    /\ expireAuthCode
    /\ UNCHANGED <<AuthExpireSecs, loginVars, storeVars, adminVars, chatVars, touchVars>>

AuthNext ==
    \/ IssueCode
    \/ ConsumeCode
    \/ ExpireCode

\* ------------------------------------------------------------------ login push-stream registry

\* #MaxTimes
MaxTimes == AuthExpireSecs \div 3

\* An SseMessage as #writeSafe frames it.
Event(code, data) == [code |-> code, data |-> data]

\* How a pending writer.write() settles: resolved, lost to the 500 ms timer of
\* the race, or rejected by the stream.
Outcomes == {"ok", "timeout", "error"}

TaskKeys == Tickets \X (1..MaxConns) \X {"notice", "close"}

LoginInit ==
    /\ AuthExpireSecs \in ExpireSecsChoices
    /\ Clients = EmptyMap
    /\ writers = << >>
    /\ heartbeats = << >>
    /\ readyWrites = << >>
    /\ pushes = << >>
    /\ pushRet = [ticket |-> None, uid |-> None, written |-> None, ret |-> None]
    /\ pushCount = 0
    /\ faults = 0
    /\ closeTasks = [k \in TaskKeys |-> 0]

\* The registry, the writers and the suspended #closeConnection calls, as the
\* value the synchronous part of a callback works on.
Cur == [Clients |-> Clients, writers |-> writers, closeTasks |-> closeTasks]

RECURSIVE Written(_)
Written(ws) == IF ws = << >> THEN 0 ELSE Len(Head(ws).sink) + Written(Tail(ws))

Install(S) ==
    /\ Written(S.writers) <= MaxWrites
    /\ Clients' = S.Clients
    /\ writers' = S.writers
    /\ closeTasks' = S.closeTasks

Suspend(S, ticket, w, at) == [S EXCEPT !.closeTasks[<<ticket, w, at>>] = @ + 1]

Resume(S, ticket, w, at) == [S EXCEPT !.closeTasks[<<ticket, w, at>>] = @ - 1]

SetState(S, w, st) == [S EXCEPT !.writers[w].state = st]

\* writer.write(chunk) on an open writer: the chunk is in the stream.
Enqueue(S, w, ev) == [S EXCEPT !.writers[w].sink = Append(@, ev)]

\* #closeConnection whose delete is skipped when writer.close() rejects.
closeWriterKeeps(S, ticket, w) ==
    IF S.writers[w].state = "open"
    THEN Suspend(SetState(S, w, "closed"), ticket, w, "close")
    ELSE S

\* #closeConnection from writer.close() on: close() on an open writer is
\* awaited (raced with 200 ms) and the delete follows the await; on a writer
\* already closed or errored close() rejects at once and the finally block
\* deletes the ticket in the same turn.
closeWriter(S, ticket, w) ==
    IF S.writers[w].state = "open"
    THEN Suspend(SetState(S, w, "closed"), ticket, w, "close")
    ELSE [S EXCEPT !.Clients = MapDelete(@, ticket)]

\* #closeConnection(ticket, msg, close) up to its first pending await. With
\* close it first writes the closing notice through #writeSafe(.., false),
\* which rejects at once on a writer that is not open.
closeConnection(S, ticket, close) ==
    IF ticket \notin DOMAIN S.Clients
    THEN S
    ELSE LET w == S.Clients[ticket] IN
         IF close /\ S.writers[w].state = "open"
         THEN Suspend(Enqueue(S, w, Event(-1, "connection closed")), ticket, w, "notice")
         ELSE closeWriter(S, ticket, w)

\* The stream of writer w errors: writer.closed rejects and the catch handler
\* handleAcceptSSE installed runs #closeConnection for the writer's own ticket.
streamError(S, w) ==
    IF S.writers[w].state = "errored"
    THEN S
    ELSE closeConnection(SetState(S, w, "errored"), S.writers[w].ticket, FALSE)

\* #writeSafe(ticket, data, callClose) up to its await: no writer, false; a
\* writer that is not open rejects the write at once (catch block); an open
\* writer takes the chunk and the race is pending.
writeSafeCall(S, ticket, ev, callClose) ==
    IF ticket \notin DOMAIN S.Clients
    THEN [S |-> S, pending |-> FALSE, w |-> 0]
    ELSE LET w == S.Clients[ticket] IN
         IF S.writers[w].state = "open"
         THEN [S |-> Enqueue(S, w, ev), pending |-> TRUE, w |-> w]
         ELSE [S |-> IF callClose THEN closeConnection(S, ticket, FALSE) ELSE S,
               pending |-> FALSE, w |-> 0]

\* #writeSafe after its await: true on "ok"; else the catch block.
writeSafeSettle(S, ticket, w, outcome, callClose) ==
    IF outcome = "ok"
    THEN S
    ELSE LET S1 == IF outcome = "error" THEN streamError(S, w) ELSE S IN
         IF callClose THEN closeConnection(S1, ticket, FALSE) ELSE S1

\* How the write pending on writer w settles; on an errored stream it can only
\* reject.
Settles(w, outcome) ==
    /\ writers[w].state = "errored" => outcome = "error"
    /\ IF outcome = "ok"
       THEN UNCHANGED faults
       ELSE faults < MaxFaults /\ faults' = faults + 1

\* handleAcceptSSE: a random ticket (no check against #Clients), a new writer
\* registered under it, the heartbeat and the code-100 write scheduled.
handleAcceptSSE(ticket) ==
    /\ Len(writers) < MaxConns
    /\ writers' = Append(writers, [ticket |-> ticket, state |-> "open",
                                   sink |-> << >>, aborted |-> FALSE])
    /\ Clients' = MapSet(Clients, ticket, Len(writers) + 1)
    /\ heartbeats' = Append(heartbeats, [pc |-> "sleep", count |-> 0, w |-> 0])
    /\ readyWrites' = Append(readyWrites, [pc |-> "timer", w |-> 0])
    /\ UNCHANGED <<pushes, pushRet, pushCount, faults, closeTasks>>

\* The setTimeout(..., 0) callback of handleAcceptSSE.
readyTimer(c) ==
    /\ readyWrites[c].pc = "timer"
    /\ LET r == writeSafeCall(Cur, writers[c].ticket, Event(100, writers[c].ticket), TRUE) IN
          /\ Install(r.S)
          /\ readyWrites' = [readyWrites EXCEPT
                ![c] = [pc |-> IF r.pending THEN "w100" ELSE "lost", w |-> r.w]]
    /\ UNCHANGED <<heartbeats, pushes, pushRet, pushCount, faults>>

readyWritten(c, outcome) ==
    /\ readyWrites[c].pc = "w100"
    /\ Settles(readyWrites[c].w, outcome)
    /\ Install(writeSafeSettle(Cur, writers[c].ticket, readyWrites[c].w, outcome, TRUE))
    /\ readyWrites' = [readyWrites EXCEPT
          ![c] = [pc |-> IF outcome = "ok" THEN "sent" ELSE "lost", w |-> 0]]
    /\ UNCHANGED <<heartbeats, pushes, pushRet, pushCount>>

HbDone(c) == heartbeats' = [heartbeats EXCEPT ![c] = [pc |-> "done", count |-> 0, w |-> 0]]

\* `next` of #setupHeartbeat from its entry (the 3000 ms timer fired, after
\* the 0 ms timer of the same connection) to its first pending await.
heartbeatNext(c) ==
    /\ heartbeats[c].pc = "sleep"
    /\ readyWrites[c].pc # "timer"
    /\ LET t == writers[c].ticket
           n == heartbeats[c].count + 1
           r == writeSafeCall(Cur, t, Event(300, n), TRUE)
       IN IF r.pending
          THEN /\ Install(r.S)
               /\ heartbeats' = [heartbeats EXCEPT ![c] = [pc |-> "w300", count |-> n, w |-> r.w]]
          ELSE /\ Install(closeConnection(r.S, t, FALSE))
               /\ HbDone(c)
    /\ UNCHANGED <<readyWrites, pushes, pushRet, pushCount, faults>>

\* `next` after the await of the code-300 write.
heartbeatWritten(c, outcome) ==
    /\ heartbeats[c].pc = "w300"
    /\ Settles(heartbeats[c].w, outcome)
    /\ LET t == writers[c].ticket
           n == heartbeats[c].count
           S1 == writeSafeSettle(Cur, t, heartbeats[c].w, outcome, TRUE)
           r == writeSafeCall(S1, t, Event(400, "timeout"), TRUE)
       IN IF outcome # "ok"
          THEN /\ Install(closeConnection(S1, t, FALSE))
               /\ HbDone(c)
          ELSE IF n >= MaxTimes
          THEN IF r.pending
               THEN /\ Install(r.S)
                    /\ heartbeats' = [heartbeats EXCEPT ![c] = [pc |-> "w400", count |-> n, w |-> r.w]]
               ELSE /\ Install(closeConnection(r.S, t, TRUE))
                    /\ HbDone(c)
          ELSE /\ Install(S1)
               /\ heartbeats' = [heartbeats EXCEPT ![c] = [pc |-> "sleep", count |-> n, w |-> 0]]
    /\ UNCHANGED <<readyWrites, pushes, pushRet, pushCount>>

\* `next` after the await of the code-400 write: the result is dropped.
heartbeatTimedOut(c, outcome) ==
    /\ heartbeats[c].pc = "w400"
    /\ Settles(heartbeats[c].w, outcome)
    /\ LET t == writers[c].ticket
           S1 == writeSafeSettle(Cur, t, heartbeats[c].w, outcome, TRUE)
       IN /\ Install(closeConnection(S1, t, TRUE))
          /\ HbDone(c)
    /\ UNCHANGED <<readyWrites, pushes, pushRet, pushCount>>

Expired == "expired"

LoginOk == "success"

LoginFailed == "failure"

\* What a handleQrcodeLogin call returned; written is what its #writeSafe
\* call returned ("true", "false"; None when it made none).
PushReturned(ticket, uid, written, ret) ==
    pushRet' = [ticket |-> ticket, uid |-> uid, written |-> written, ret |-> ret]

RemoveAt(q, i) == [k \in 1..(Len(q) - 1) |-> IF k < i THEN q[k] ELSE q[k + 1]]

\* handleQrcodeLogin with the has() check dropped.
handleQrcodeLoginNoCheck(ticket, uid) ==
    /\ pushCount < MaxPushes
    /\ pushCount' = pushCount + 1
    /\ LET r == writeSafeCall(Cur, ticket, Event(200, uid), TRUE) IN
          IF r.pending
          THEN /\ Install(r.S)
               /\ pushes' = Append(pushes, [ticket |-> ticket, uid |-> uid, w |-> r.w])
               /\ UNCHANGED pushRet
          ELSE /\ Install(closeConnection(r.S, ticket, TRUE))
               /\ PushReturned(ticket, uid, "false", LoginOk)
               /\ UNCHANGED pushes
    /\ UNCHANGED <<heartbeats, readyWrites, faults>>

\* handleQrcodeLogin(ticket, uid) up to its first pending await.
handleQrcodeLogin(ticket, uid) ==
    /\ pushCount < MaxPushes
    /\ pushCount' = pushCount + 1
    /\ IF ticket \notin DOMAIN Clients
       THEN /\ PushReturned(ticket, uid, None, Expired)
            /\ UNCHANGED <<Clients, writers, closeTasks, pushes>>
       ELSE LET r == writeSafeCall(Cur, ticket, Event(200, uid), TRUE) IN
            IF r.pending
            THEN /\ Install(r.S)
                 /\ pushes' = Append(pushes, [ticket |-> ticket, uid |-> uid, w |-> r.w])
                 /\ UNCHANGED pushRet
            ELSE /\ Install(closeConnection(r.S, ticket, TRUE))
                 /\ PushReturned(ticket, uid, "false", LoginOk)
                 /\ UNCHANGED pushes
    /\ UNCHANGED <<heartbeats, readyWrites, faults>>

\* handleQrcodeLogin after the await of the code-200 write: #writeSafe
\* returned true or false (it never throws), the result is dropped, the
\* closing #closeConnection is started and the success text returned.
qrcodeLoginWritten(p, outcome) ==
    /\ p \in 1..Len(pushes)
    /\ Settles(pushes[p].w, outcome)
    /\ LET t == pushes[p].ticket
           S1 == writeSafeSettle(Cur, t, pushes[p].w, outcome, TRUE)
       IN /\ Install(closeConnection(S1, t, TRUE))
          /\ PushReturned(t, pushes[p].uid, IF outcome = "ok" THEN "true" ELSE "false", LoginOk)
    /\ pushes' = RemoveAt(pushes, p)
    /\ UNCHANGED <<heartbeats, readyWrites, pushCount>>

\* #closeConnection after the await of its closing notice.
noticeWritten(ticket, w, outcome) ==
    /\ closeTasks[<<ticket, w, "notice">>] > 0
    /\ Settles(w, outcome)
    /\ Install(closeWriter(
          writeSafeSettle(Resume(Cur, ticket, w, "notice"), ticket, w, outcome, FALSE),
          ticket, w))
    /\ UNCHANGED <<heartbeats, readyWrites, pushes, pushRet, pushCount>>

\* #closeConnection after the await of the close race: the finally block.
closeSettled(ticket, w) ==
    /\ closeTasks[<<ticket, w, "close">>] > 0
    /\ Install([Resume(Cur, ticket, w, "close") EXCEPT !.Clients = MapDelete(@, ticket)])
    /\ UNCHANGED <<heartbeats, readyWrites, pushes, pushRet, pushCount, faults>>

\* The abort listener of handleAcceptSSE; the client's disconnect may have
\* errored the stream by then (cancelled) or not.
clientAbort(c, cancelled) ==
    /\ ~writers[c].aborted
    /\ faults < MaxFaults
    /\ faults' = faults + 1
    /\ LET S0 == [Cur EXCEPT !.writers[c].aborted = TRUE]
           S1 == IF cancelled THEN streamError(S0, c) ELSE S0
       IN Install(closeConnection(S1, writers[c].ticket, FALSE))
    /\ UNCHANGED <<heartbeats, readyWrites, pushes, pushRet, pushCount>>

ConnIds == 1..Len(writers)

Rest == UNCHANGED <<AuthExpireSecs, authVars, storeVars, adminVars, chatVars, touchVars>>

\* The tickets drawn so far, and the next name.
DrawnTickets == {writers[c].ticket : c \in ConnIds}

Drawable == {TicketNames[i] : i \in 1..NumTickets} \cap
            (DrawnTickets \cup {TicketNames[Cardinality(DrawnTickets) + 1]})

AcceptSSE == Rest /\ \E ticket \in Drawable : handleAcceptSSE(ticket)

ReadyTimer == Rest /\ \E c \in ConnIds : readyTimer(c)

ReadyWritten == Rest /\ \E c \in ConnIds, outcome \in Outcomes : readyWritten(c, outcome)

HeartbeatNext == Rest /\ \E c \in ConnIds : heartbeatNext(c)

HeartbeatWritten == Rest /\ \E c \in ConnIds, outcome \in Outcomes : heartbeatWritten(c, outcome)

HeartbeatTimedOut == Rest /\ \E c \in ConnIds, outcome \in Outcomes : heartbeatTimedOut(c, outcome)

\* The uids handleQrcodeLogin calls have met so far, and the next name.
MetUids == {UidNames[i] : i \in 1..(IF pushCount < Len(UidNames) THEN pushCount + 1 ELSE Len(UidNames))}

\* A scanned QR code carries any ticket value; the value of a registered ticket
\* is one a page was given, in the code-100 event of a connection.
Announced(ticket) == \E c \in ConnIds : writers[c].ticket = ticket /\ readyWrites[c].pc = "sent"

QrcodeLogin ==
    Rest /\ \E ticket \in Tickets, uid \in MetUids :
               /\ ticket \in DOMAIN Clients => Announced(ticket)
               /\ handleQrcodeLogin(ticket, uid)

QrcodeLoginWritten ==
    Rest /\ \E p \in 1..Len(pushes), outcome \in Outcomes : qrcodeLoginWritten(p, outcome)

NoticeWritten ==
    Rest /\ \E ticket \in Tickets, w \in ConnIds, outcome \in Outcomes :
               noticeWritten(ticket, w, outcome)

CloseSettled == Rest /\ \E ticket \in Tickets, w \in ConnIds : closeSettled(ticket, w)

ClientAbort == Rest /\ \E c \in ConnIds, cancelled \in BOOLEAN : clientAbort(c, cancelled)

LoginNext ==
    \/ AcceptSSE
    \/ ReadyTimer
    \/ ReadyWritten
    \/ HeartbeatNext
    \/ HeartbeatWritten
    \/ HeartbeatTimedOut
    \/ QrcodeLogin
    \/ QrcodeLoginWritten
    \/ NoticeWritten
    \/ CloseSettled
    \/ ClientAbort

\* ------------------------------------------------------------------ JavaScript values

\* A JavaScript value in a number slot: undefined, NaN or a number.
Absent == [kind |-> "undefined", n |-> 0]

NaN == [kind |-> "nan", n |-> 0]

Num(n) == [kind |-> "number", n |-> n]

\* if (filter.limit): undefined, NaN and 0 are falsy.
NumTruthy(v) == v.kind = "number" /\ v.n # 0

\* A URL parameter holding a number is a sequence of characters; null and ""
\* are both << >>.
DigitValue == [c \in {"0", "1", "2", "3", "4", "5", "6", "7", "8", "9"} |->
                  CASE c = "0" -> 0 [] c = "1" -> 1 [] c = "2" -> 2 [] c = "3" -> 3 [] c = "4" -> 4
                    [] c = "5" -> 5 [] c = "6" -> 6 [] c = "7" -> 7 [] c = "8" -> 8 [] c = "9" -> 9]

\* ------------------------------------------------------------------ JSON text of PipelineStep[]

\* Text is a sequence of characters. The stage names of PipelineStage used here.
Stages == {<<"d", "b">>, <<"l", "l", "m">>}

\* At most this many steps in a SessionLog.
MaxSteps == 2

\* step.duration: undefined until endStep, then endTime - startTime.
Durations == {Absent, Num(0), Num(12)}

\* A step is as startStep made it (success false, no duration) or as endStep
\* left it.
PipelineSteps ==
    {step \in [stage : Stages, success : BOOLEAN, duration : Durations] :
        step.duration = Absent => ~step.success}

StepLists == UNION {[1..k -> PipelineSteps] : k \in 0..MaxSteps}

DigitChars == <<"0", "1", "2", "3", "4", "5", "6", "7", "8", "9">>

\* The decimal digits of n >= 0.
RECURSIVE DigitsOf(_)
DigitsOf(n) == IF n < 10 THEN <<DigitChars[n + 1]>> ELSE Append(DigitsOf(n \div 10), DigitChars[(n % 10) + 1])

\* JSON.stringify of a string: quoted, with " and \ escaped.
RECURSIVE Escape(_)
Escape(chars) ==
    IF chars = << >> THEN << >>
    ELSE (IF Head(chars) \in {"\"", "\\"} THEN <<"\\", Head(chars)>> ELSE <<Head(chars)>>)
         \o Escape(Tail(chars))

Quote(chars) == <<"\"">> \o Escape(chars) \o <<"\"">>

\* JSON.stringify of a number slot: NaN is written as null.
NumberText(v) ==
    IF v.kind = "nan" THEN <<"n", "u", "l", "l">>
    ELSE IF v.n < 0 THEN <<"-">> \o DigitsOf(0 - v.n) ELSE DigitsOf(v.n)

BooleanText(b) == IF b THEN <<"t", "r", "u", "e">> ELSE <<"f", "a", "l", "s", "e">>

StageKey == <<"s", "t", "a", "g", "e">>

SuccessKey == <<"s", "u", "c", "c", "e", "s", "s">>

DurationKey == <<"d", "u", "r", "a", "t", "i", "o", "n">>

\* JSON.stringify of a step that writes a falsy duration as null.
StepTextFalsyDuration(step) ==
    <<"{">> \o Quote(StageKey) \o <<":">> \o Quote(step.stage)
    \o <<",">> \o Quote(SuccessKey) \o <<":">> \o BooleanText(step.success)
    \o <<",">> \o Quote(DurationKey) \o <<":">>
    \o (IF NumTruthy(step.duration) THEN NumberText(step.duration) ELSE <<"n", "u", "l", "l">>)
    \o <<"}">>

\* JSON.stringify of one step: its own properties in insertion order (stage and
\* success from startStep, duration from endStep); an undefined property is
\* left out.
StepText(step) ==
    <<"{">> \o Quote(StageKey) \o <<":">> \o Quote(step.stage)
    \o <<",">> \o Quote(SuccessKey) \o <<":">> \o BooleanText(step.success)
    \o (IF step.duration = Absent THEN << >>
        ELSE <<",">> \o Quote(DurationKey) \o <<":">> \o NumberText(step.duration))
    \o <<"}">>

\* JSON.stringify(log.steps)
RECURSIVE StepsText(_)
StepsText(steps) ==
    IF steps = << >> THEN << >>
    ELSE StepText(Head(steps)) \o (IF Len(steps) > 1 THEN <<",">> ELSE << >>) \o StepsText(Tail(steps))

JSONstringify(steps) == <<"[">> \o StepsText(steps) \o <<"]">>

\* JSON.parse: a string from the character after its opening quote.
RECURSIVE ReadString(_, _)
ReadString(txt, i) ==
    IF txt[i] = "\"" THEN [chars |-> << >>, next |-> i + 1]
    ELSE IF txt[i] = "\\"
         THEN LET r == ReadString(txt, i + 2) IN [chars |-> <<txt[i + 1]>> \o r.chars, next |-> r.next]
         ELSE LET r == ReadString(txt, i + 1) IN [chars |-> <<txt[i]>> \o r.chars, next |-> r.next]

RECURSIVE ReadDigits(_, _, _)
ReadDigits(txt, i, acc) ==
    IF i <= Len(txt) /\ txt[i] \in DOMAIN DigitValue
    THEN ReadDigits(txt, i + 1, 10 * acc + DigitValue[txt[i]])
    ELSE [n |-> acc, next |-> i]

\* A parsed value: a string, a number, a boolean or null.
Value(kind, chars, n, b) == [kind |-> kind, chars |-> chars, n |-> n, b |-> b]

ReadValue(txt, i) ==
    CASE txt[i] = "\"" ->
            LET r == ReadString(txt, i + 1) IN [v |-> Value("string", r.chars, 0, FALSE), next |-> r.next]
      [] txt[i] = "t" -> [v |-> Value("boolean", << >>, 0, TRUE), next |-> i + 4]
      [] txt[i] = "f" -> [v |-> Value("boolean", << >>, 0, FALSE), next |-> i + 5]
      [] txt[i] = "n" -> [v |-> Value("null", << >>, 0, FALSE), next |-> i + 4]
      [] txt[i] = "-" ->
            LET r == ReadDigits(txt, i + 1, 0) IN [v |-> Value("number", << >>, 0 - r.n, FALSE), next |-> r.next]
      [] OTHER ->
            LET r == ReadDigits(txt, i, 0) IN [v |-> Value("number", << >>, r.n, FALSE), next |-> r.next]

\* An object with none of the three properties.
NoStep == [stage |-> << >>, success |-> FALSE, duration |-> Absent]

SetProperty(step, key, v) ==
    CASE key = StageKey -> [step EXCEPT !.stage = v.chars]
      [] key = SuccessKey -> [step EXCEPT !.success = v.b]
      [] key = DurationKey ->
            [step EXCEPT !.duration = IF v.kind = "number" THEN Num(v.n) ELSE [kind |-> v.kind, n |-> 0]]
      [] OTHER -> step

\* The members of an object from the character after "{" or after a ",".
RECURSIVE ReadMembers(_, _, _)
ReadMembers(txt, i, step) ==
    IF txt[i] = "}" THEN [step |-> step, next |-> i + 1]
    ELSE LET key == ReadString(txt, i + 1)
             val == ReadValue(txt, key.next + 1)
         IN ReadMembers(txt, IF txt[val.next] = "," THEN val.next + 1 ELSE val.next,
                        SetProperty(step, key.chars, val.v))

\* The elements of an array from the character after "[" or after a ",".
RECURSIVE ReadSteps(_, _, _)
ReadSteps(txt, i, steps) ==
    IF txt[i] = "]" THEN steps
    ELSE LET r == ReadMembers(txt, i + 1, NoStep)
         IN ReadSteps(txt, IF txt[r.next] = "," THEN r.next + 1 ELSE r.next, Append(steps, r.step))

\* JSON.parse(text) of a PipelineStep[].
JSONparse(txt) == ReadSteps(txt, 2, << >>)

\* ------------------------------------------------------------------ log channel and persisted store

\* At most this many handleLoggerSSE calls.
MaxListeners == 2

\* At most this many store operations that read Date.now().
MaxOps == 2

\* Values of Utils.random_string(16), named in the order handleLoggerSSE draws
\* them; sixteen random characters are taken to differ from call to call.
ClientNames == <<"k1", "k2", "k3">>

\* NULL in an INTEGER column.
Null == 0

\* The uid of a MessagePipeline on which setUser was not called.
NoUid == ""

StoreInit ==
    /\ LoggerClients = EmptyMap
    /\ logWriters = << >>
    /\ logs = << >>
    /\ sessionLogs = << >>
    /\ users = EmptyMap
    /\ authLogs = << >>
    /\ conversations = << >>
    /\ requests = << >>
    /\ storeRet = [op |-> "init", uid |-> None, ret |-> 0, sent |-> 0, failed |-> 0]
    /\ now = 0

\* The frames of the log channel: {type: "connected", clientId} and
\* {type: "log" | "session_log", data: the row with its id}.
Connected(clientId) == [type |-> "connected", id |-> 0, clientId |-> clientId]

Frame(type, id) == [type |-> type, id |-> id, clientId |-> None]

\* if (entry.uid): undefined and "" are falsy.
Truthy(x) == x \notin {None, NoUid}

\* handleLoggerSSE up to its await: a new writer registered under a fresh
\* clientId and the "connected" frame handed to writer.write(), which is
\* awaited with no timer. Whether the client reads the stream (so that writes
\* resolve) is the client's choice.
handleLoggerSSE(reads) ==
    /\ Len(logWriters) < MaxListeners
    /\ LET l == Len(logWriters) + 1
           clientId == ClientNames[l]
       IN /\ logWriters' = Append(logWriters,
                [clientId |-> clientId, state |-> "open", sink |-> <<Connected(clientId)>>,
                 pending |-> 1, reads |-> reads, pc |-> "welcome", aborted |-> FALSE])
          /\ LoggerClients' = MapSet(LoggerClients, clientId, l)
    /\ UNCHANGED <<logs, sessionLogs, users, authLogs, conversations, requests, storeRet, now>>

\* The oldest pending write of writer l resolves; if it is the "connected"
\* write, handleLoggerSSE resumes and returns the Response.
logWriteResolved(l) ==
    /\ logWriters[l].pending > 0
    /\ logWriters[l].reads
    /\ logWriters[l].state # "errored"
    /\ logWriters' = [logWriters EXCEPT
          ![l].pending = @ - 1,
          ![l].pc = IF @ = "welcome" THEN "streaming" ELSE @]
    /\ UNCHANGED <<LoggerClients, logs, sessionLogs, users, authLogs, conversations,
                   requests, storeRet, now>>

\* The consumer of the Response body goes away and the stream of writer l
\* errors: every pending write rejects, and the catch handler a broadcast
\* attached to its write deletes the clientId.
logStreamErrored(l) ==
    /\ logWriters[l].pc = "streaming"
    /\ logWriters[l].reads
    /\ logWriters[l].state # "errored"
    /\ logWriters' = [logWriters EXCEPT ![l].state = "errored", ![l].pending = 0]
    /\ LoggerClients' = IF logWriters[l].pending > 0
                        THEN MapDelete(LoggerClients, logWriters[l].clientId)
                        ELSE LoggerClients
    /\ UNCHANGED <<logs, sessionLogs, users, authLogs, conversations, requests, storeRet, now>>

\* The abort listener of handleLoggerSSE: delete, then writer.close().
loggerAbort(l) ==
    /\ ~logWriters[l].aborted
    /\ LoggerClients' = MapDelete(LoggerClients, logWriters[l].clientId)
    /\ logWriters' = [logWriters EXCEPT
          ![l].aborted = TRUE,
          ![l].state = IF @ = "open" THEN "closed" ELSE @]
    /\ UNCHANGED <<logs, sessionLogs, users, authLogs, conversations, requests, storeRet, now>>

\* writer.write() on writer l is taken by the stream; otherwise it rejects at once.
Writable(l) == logWriters[l].state = "open"

\* The clientIds whose write a broadcast sees rejected at once.
Rejected == {k \in DOMAIN LoggerClients : ~Writable(LoggerClients[k])}

\* A broadcast that gives up the whole registry when one write is rejected.
broadcastAllOrNothing(frame) ==
    /\ LoggerClients' = IF Rejected = {} THEN LoggerClients ELSE EmptyMap
    /\ logWriters' = [l \in DOMAIN logWriters |->
          IF Rejected = {} /\ \E k \in DOMAIN LoggerClients : LoggerClients[k] = l
          THEN [logWriters[l] EXCEPT !.sink = Append(@, frame), !.pending = @ + 1]
          ELSE logWriters[l]]

\* The loop of #broadcastLog and of #broadcastSessionLog: writer.write(encoded)
\* on every registered writer, each with its own catch handler that deletes
\* that clientId.
broadcast(frame) ==
    /\ LoggerClients' = [k \in DOMAIN LoggerClients \ Rejected |-> LoggerClients[k]]
    /\ logWriters' = [l \in DOMAIN logWriters |->
          IF \E k \in DOMAIN LoggerClients \ Rejected : LoggerClients[k] = l
          THEN [logWriters[l] EXCEPT !.sink = Append(@, frame), !.pending = @ + 1]
          ELSE logWriters[l]]

broadcastLog(entry) == broadcast(Frame("log", entry.id))

broadcastSessionLog(log) == broadcast(Frame("session_log", log.id))

\* handleUserTouch written as INSERT OR REPLACE: an existing row starts over.
handleUserTouchReplace(U, uid, t) ==
    MapSet(U, uid, [firstSeen |-> t, lastSeen |-> t, msgCount |-> 1,
                    llmTokens |-> 0, authCount |-> 0, lastAuth |-> Null])

\* handleUserTouch with the msg_count increment forgotten.
handleUserTouchNoCount(U, uid, t) ==
    IF uid \in DOMAIN U
    THEN [U EXCEPT ![uid].lastSeen = t]
    ELSE MapSet(U, uid, [firstSeen |-> t, lastSeen |-> t, msgCount |-> 1,
                         llmTokens |-> 0, authCount |-> 0, lastAuth |-> Null])

\* handleUserTouch(uid) at time t, on the table U.
handleUserTouch(U, uid, t) ==
    IF uid \in DOMAIN U
    THEN [U EXCEPT ![uid].lastSeen = t, ![uid].msgCount = @ + 1]
    ELSE MapSet(U, uid, [firstSeen |-> t, lastSeen |-> t, msgCount |-> 1,
                         llmTokens |-> 0, authCount |-> 0, lastAuth |-> Null])

StoreReturned(op, uid, ret) ==
    storeRet' = [op |-> op, uid |-> uid, ret |-> ret,
                 sent |-> Cardinality(DOMAIN LoggerClients \ Rejected),
                 failed |-> Cardinality(Rejected)]

\* A store operation starts: Date.now() moves on.
Tick ==
    /\ now < MaxOps
    /\ now' = now + 1

\* handleLogInsert that raises when a listener's write is rejected.
handleLogInsertStrict(uid) ==
    /\ Tick
    /\ LET entry == [id |-> Len(logs) + 1, uid |-> uid] IN
          /\ logs' = Append(logs, entry)
          /\ broadcastLog(entry)
          /\ IF Rejected # {}
             THEN /\ users' = users
                  /\ StoreReturned("insertLog", uid, -1)
             ELSE /\ users' = IF Truthy(uid) THEN handleUserTouch(users, uid, now + 1) ELSE users
                  /\ StoreReturned("insertLog", uid, entry.id)
    /\ UNCHANGED <<sessionLogs, authLogs, conversations>>

\* handleLogInsert(entry): INSERT ... RETURNING id, the broadcast, the touch.
handleLogInsert(uid) ==
    /\ Tick
    /\ LET entry == [id |-> Len(logs) + 1, uid |-> uid] IN
          /\ logs' = Append(logs, entry)
          /\ broadcastLog(entry)
          /\ users' = IF Truthy(uid) THEN handleUserTouch(users, uid, now + 1) ELSE users
          /\ StoreReturned("insertLog", uid, entry.id)
    /\ UNCHANGED <<sessionLogs, authLogs, conversations>>

\* handleSessionLogInsert(log): the same on `session_logs`, with log.steps kept
\* as JSON text.
handleSessionLogInsert(uid, steps) ==
    /\ Tick
    /\ LET log == [id |-> Len(sessionLogs) + 1, uid |-> uid, steps |-> JSONstringify(steps)] IN
          /\ sessionLogs' = Append(sessionLogs, log)
          /\ broadcastSessionLog(log)
          /\ users' = IF Truthy(uid) THEN handleUserTouch(users, uid, now + 1) ELSE users
          /\ StoreReturned("insertSessionLog", uid, log.id)
    /\ UNCHANGED <<logs, authLogs, conversations>>

ListenerIds == 1..Len(logWriters)

\* The uids the store has a row for, and the next name.
KnownUids == {UidNames[i] : i \in 1..(IF Cardinality(DOMAIN users) < Len(UidNames)
                                      THEN Cardinality(DOMAIN users) + 1
                                      ELSE Len(UidNames))}

Others == UNCHANGED <<AuthExpireSecs, authVars, loginVars, adminVars, chatVars, touchVars>>

LoggerSSE == Others /\ \E reads \in BOOLEAN : handleLoggerSSE(reads)

LogWriteResolved == Others /\ \E l \in ListenerIds : logWriteResolved(l)

LogStreamErrored == Others /\ \E l \in ListenerIds : logStreamErrored(l)

LoggerAbort == Others /\ \E l \in ListenerIds : loggerAbort(l)

\* Logger: logWxMessage, logLLMCall, logOAuth and logError carry a uid (logOAuth
\* and logError an optional one), logAdmin none.
LogInsert ==
    /\ Others
    /\ \E uid \in KnownUids \cup {None} : handleLogInsert(uid)
    /\ UNCHANGED requests

\* MessagePipeline.commitAsync and commit.
SessionLogInsert ==
    /\ Others
    /\ \E uid \in KnownUids \cup {NoUid} : handleSessionLogInsert(uid, << >>)
    /\ UNCHANGED requests

LogNext ==
    \/ LoggerSSE
    \/ LogWriteResolved
    \/ LogStreamErrored
    \/ LoggerAbort
    \/ LogInsert
    \/ SessionLogInsert

\* ------------------------------------------------------------------ persisted store: users, auth records, conversations

\* At most this many actionText requests, and rows of `conversations`.
MaxRequests == 2

MaxRows == 2

\* usage.total_tokens of an LLM reply.
TokenCounts == {0, 2}

\* xmlMsg.Content and the LLM's reply after trim(); "" is empty.
Contents == {"", "hi"}

\* The replies actionText substitutes for an empty and for a failed LLM answer.
Apology == "sorry"

Oops == "oops"

\* What Logger.logConversation returns for empty content.
Skipped == 0

Roles == {"user", "assistant"}

\* handleUserAddTokens(uid, tokens): UPDATE `users` ... WHERE uid = ?.
handleUserAddTokens(U, uid, tokens) ==
    IF uid \in DOMAIN U
    THEN [U EXCEPT ![uid].llmTokens = @ + tokens]
    ELSE U

\* handleAuthLogInsert(auth): INSERT ... RETURNING id; on success
\* UPDATE `users` SET auth_count = auth_count + 1, last_auth = now WHERE uid = ?.
handleAuthLogInsert(uid, success) ==
    /\ Tick
    /\ authLogs' = Append(authLogs, [id |-> Len(authLogs) + 1, uid |-> uid, success |-> success])
    /\ users' = IF success /\ uid \in DOMAIN users
                THEN [users EXCEPT ![uid].authCount = @ + 1, ![uid].lastAuth = now + 1]
                ELSE users
    /\ StoreReturned("insertAuth", uid, Len(authLogs) + 1)
    /\ UNCHANGED <<LoggerClients, logWriters, logs, sessionLogs, conversations>>

\* handleConversationInsert(msg): INSERT ... RETURNING id.
handleConversationInsert(op, uid, role, content) ==
    /\ Len(conversations) < MaxRows
    /\ conversations' = Append(conversations,
          [id |-> Len(conversations) + 1, uid |-> uid, role |-> role, content |-> content])
    /\ StoreReturned(op, uid, Len(conversations) + 1)

\* Logger.logConversation without its guard.
logConversationNoCheck(uid, role, content) ==
    /\ handleConversationInsert("logConversation", uid, role, content)
    /\ UNCHANGED <<LoggerClients, logWriters, logs, sessionLogs, users, authLogs, now>>

\* Logger.logConversation(params): empty content is skipped with 0.
logConversation(uid, role, content) ==
    /\ IF content = ""
       THEN /\ StoreReturned("logConversation", uid, Skipped)
            /\ UNCHANGED conversations
       ELSE handleConversationInsert("logConversation", uid, role, content)
    /\ UNCHANGED <<LoggerClients, logWriters, logs, sessionLogs, users, authLogs, now>>

\* actionText up to the LLM call: a MessagePipeline with the user and the input.
actionTextStart(uid, input) ==
    /\ Len(requests) < MaxRequests
    /\ requests' = Append(requests, [uid |-> uid, input |-> input, output |-> "", pc |-> "llm"])
    /\ UNCHANGED <<LoggerClients, logWriters, logs, sessionLogs, users, authLogs,
                   conversations, storeRet, now>>

\* actionText after env.AI.run returned: an empty reply is replaced, and a
\* positive token count is handed to handleUserAddTokens.
actionTextReplied(r, tokens, reply) ==
    /\ requests[r].pc = "llm"
    /\ requests' = [requests EXCEPT ![r].pc = "user",
                                    ![r].output = IF reply = "" THEN Apology ELSE reply]
    /\ IF tokens > 0
       THEN /\ users' = handleUserAddTokens(users, requests[r].uid, tokens)
            /\ StoreReturned("addTokens", requests[r].uid, tokens)
       ELSE UNCHANGED <<users, storeRet>>
    /\ UNCHANGED <<LoggerClients, logWriters, logs, sessionLogs, authLogs, conversations, now>>

\* actionText when the LLM call throws: the catch block.
actionTextFailed(r) ==
    /\ requests[r].pc = "llm"
    /\ requests' = [requests EXCEPT ![r].pc = "commit", ![r].output = Oops]
    /\ UNCHANGED <<LoggerClients, logWriters, logs, sessionLogs, users, authLogs,
                   conversations, storeRet, now>>

\* MessagePipeline.logUserMessage: nothing without input or uid.
logUserMessage(r) ==
    /\ requests[r].pc = "user"
    /\ requests' = [requests EXCEPT ![r].pc = "assistant"]
    /\ IF requests[r].input = "" \/ requests[r].uid = NoUid
       THEN UNCHANGED <<conversations, storeRet>>
       ELSE handleConversationInsert("logUserMessage", requests[r].uid, "user", requests[r].input)
    /\ UNCHANGED <<LoggerClients, logWriters, logs, sessionLogs, users, authLogs, now>>

\* MessagePipeline.logAssistantMessage: nothing without output or uid.
logAssistantMessage(r) ==
    /\ requests[r].pc = "assistant"
    /\ requests' = [requests EXCEPT ![r].pc = "commit"]
    /\ IF requests[r].output = "" \/ requests[r].uid = NoUid
       THEN UNCHANGED <<conversations, storeRet>>
       ELSE handleConversationInsert("logAssistantMessage", requests[r].uid, "assistant",
                                     requests[r].output)
    /\ UNCHANGED <<LoggerClients, logWriters, logs, sessionLogs, users, authLogs, now>>

\* MessagePipeline.commitAsync: the request's handleSessionLogInsert.
commitAsync(r) ==
    /\ requests[r].pc = "commit"
    /\ requests' = [requests EXCEPT ![r].pc = "done"]
    /\ handleSessionLogInsert(requests[r].uid, << >>)

RequestIds == 1..Len(requests)

ActionTextStart == Others /\ \E uid \in KnownUids, input \in Contents : actionTextStart(uid, input)

ActionTextReplied ==
    Others /\ \E r \in RequestIds, tokens \in TokenCounts, reply \in Contents :
                 actionTextReplied(r, tokens, reply)

ActionTextFailed == Others /\ \E r \in RequestIds : actionTextFailed(r)

LogUserMessage == Others /\ \E r \in RequestIds : logUserMessage(r)

LogAssistantMessage == Others /\ \E r \in RequestIds : logAssistantMessage(r)

CommitAsync == Others /\ \E r \in RequestIds : commitAsync(r)

LogConversation ==
    /\ Others
    /\ \E uid \in KnownUids, role \in Roles, content \in Contents : logConversation(uid, role, content)
    /\ UNCHANGED requests

\* Logger.logAuth, from handleCodeLogin.
AuthLogInsert ==
    /\ Others
    /\ \E uid \in KnownUids, success \in BOOLEAN : handleAuthLogInsert(uid, success)
    /\ UNCHANGED requests

StoreNext ==
    \/ ActionTextStart
    \/ ActionTextReplied
    \/ ActionTextFailed
    \/ LogUserMessage
    \/ LogAssistantMessage
    \/ CommitAsync
    \/ LogConversation
    \/ AuthLogInsert

\* ------------------------------------------------------------------ chat history

\* At most this many calls of handleUpdateChatHistory are made.
MaxMessages == 3

\* Values of xmlMsg.FromUserName with their characters: two OpenIDs, and two
\* strings that hold a single quote.
Quoted == "u1'"

Injected == "' OR ''='"

ChatUids == Uids \cup {Quoted, Injected}

UidChars(uid) ==
    CASE uid = "u1" -> <<"u", "1">>
      [] uid = "u2" -> <<"u", "2">>
      [] uid = Quoted -> <<"u", "1", "'">>
      [] uid = Injected -> <<"'", " ", "O", "R", " ", "'", "'", "=", "'">>

\* env.LLMSystemTip
SystemTip == "tip"

Preamble == [role |-> "system", content |-> SystemTip]

\* The ChatMessage values handed to handleUpdateChatHistory.
ChatMessages ==
    {[role |-> "user", content |-> "hi"], [role |-> "assistant", content |-> "yo"],
     [role |-> "assistant", content |-> "ok"]}

\* What handleGetLastChatContent and handleClearChatHistory return.
NoHistory == "== 1 =="

NoAssistant == "== 2 =="

NothingToForget == "forgotten already"

Cleared == "cleared"

NoChat == [op |-> "init", uid |-> None, threw |-> FALSE, text |-> None, history |-> << >>]

ChatInit ==
    /\ ChatHistory = EmptyMap
    /\ messages = << >>
    /\ chatRet = NoChat
    /\ appends = 0

ChatReturned(op, uid, threw, text, history) ==
    chatRet' = [op |-> op, uid |-> uid, threw |-> threw, text |-> text, history |-> history]

\* handleUpdateChatHistory(uid, msg)
handleUpdateChatHistory(uid, msg) ==
    LET got == IF uid \in DOMAIN ChatHistory THEN ChatHistory[uid] ELSE << >>
        history == Append(IF uid \notin DOMAIN ChatHistory THEN <<Preamble>> ELSE got, msg)
    IN /\ appends < MaxMessages
       /\ appends' = appends + 1
       /\ ChatHistory' = MapSet(ChatHistory, uid, history)
       /\ messages' = Append(messages, [uid |-> uid, role |-> msg.role, content |-> msg.content])
       /\ ChatReturned("append", uid, FALSE, None, history)

\* The index of the first assistant message of a history, 0 without one.
FirstAssistant(history) ==
    LET from[i \in 0..Len(history)] ==
            IF i = 0 THEN 0
            ELSE IF from[i - 1] # 0 THEN from[i - 1]
            ELSE IF history[i].role = "assistant" THEN i ELSE 0
    IN from[Len(history)]

\* The index of the last assistant message of a history, 0 without one.
LastAssistant(history) ==
    LET from[i \in 0..Len(history)] ==
            IF i = 0 THEN 0 ELSE IF history[i].role = "assistant" THEN i ELSE from[i - 1]
    IN from[Len(history)]

\* handleGetLastChatContent(uid)
handleGetLastChatContent(uid) ==
    /\ ChatReturned("lastAssistantReply", uid, FALSE,
                    IF uid \notin DOMAIN ChatHistory THEN NoHistory
                    ELSE IF LastAssistant(ChatHistory[uid]) = 0 THEN NoAssistant
                    ELSE ChatHistory[uid][LastAssistant(ChatHistory[uid])].content,
                    << >>)
    /\ UNCHANGED <<ChatHistory, messages, appends>>

\* The text of the statement handleClearChatHistory builds, from WHERE on:
\* the quoted identifier `uid` is one element, every other character its own.
DeleteWhere(uid) == <<"uid", "=", "'">> \o UidChars(uid) \o <<"'", ";">>

\* A string literal of SQL from the character after its opening quote: ''
\* inside it is one quote; next is 0 when the text ends inside the literal.
RECURSIVE SqlString(_, _)
SqlString(txt, i) ==
    IF i > Len(txt) THEN [chars |-> << >>, next |-> 0]
    ELSE IF txt[i] = "'"
         THEN IF i < Len(txt) /\ txt[i + 1] = "'"
              THEN LET r == SqlString(txt, i + 2) IN [chars |-> <<"'">> \o r.chars, next |-> r.next]
              ELSE [chars |-> << >>, next |-> i + 1]
         ELSE LET r == SqlString(txt, i + 1) IN [chars |-> <<txt[i]>> \o r.chars, next |-> r.next]

Token(t, v) == [t |-> t, v |-> v]

\* The tokens of a WHERE clause: the column `uid`, =, OR, string literals.
RECURSIVE SqlTokens(_, _)
SqlTokens(txt, i) ==
    IF i > Len(txt) THEN << >>
    ELSE CASE txt[i] \in {" ", ";"} -> SqlTokens(txt, i + 1)
           [] txt[i] = "=" -> <<Token("=", << >>)>> \o SqlTokens(txt, i + 1)
           [] txt[i] = "uid" -> <<Token("uid", << >>)>> \o SqlTokens(txt, i + 1)
           [] txt[i] = "O" -> <<Token("or", << >>)>> \o SqlTokens(txt, i + 2)
           [] txt[i] = "'" ->
                 LET r == SqlString(txt, i + 1)
                 IN IF r.next = 0 THEN <<Token("error", << >>)>>
                    ELSE <<Token("string", r.chars)>> \o SqlTokens(txt, r.next)
           [] OTHER -> <<Token("error", << >>)>>

\* operand = operand, joined by OR.
SqlValid(tokens) ==
    /\ Len(tokens) % 4 = 3
    /\ \A k \in DOMAIN tokens :
          tokens[k].t = (CASE k % 4 = 0 -> "or" [] k % 4 = 2 -> "=" [] OTHER -> tokens[k].t)
    /\ \A k \in DOMAIN tokens : k % 2 = 1 => tokens[k].t \in {"uid", "string"}

\* The WHERE clause on a row.
SqlWhere(tokens, row) ==
    LET value(k) == IF tokens[k].t = "uid" THEN UidChars(row.uid) ELSE tokens[k].v
    IN \E k \in DOMAIN tokens : k % 4 = 1 /\ value(k) = value(k + 2)

\* handleClearChatHistory(uid): the DELETE built from the uid's characters
\* (a statement SQLite rejects throws, before the cache is looked at), then
\* the cache entry.
handleClearChatHistory(uid) ==
    LET tokens == SqlTokens(DeleteWhere(uid), 1)
    IN IF ~SqlValid(tokens)
       THEN /\ ChatReturned("clear", uid, TRUE, None, << >>)
            /\ UNCHANGED <<ChatHistory, messages, appends>>
       ELSE /\ UNCHANGED appends
            /\ messages' = SelectSeq(messages, LAMBDA row : ~SqlWhere(tokens, row))
            /\ IF uid \notin DOMAIN ChatHistory
               THEN /\ ChatReturned("clear", uid, FALSE, NothingToForget, << >>)
                    /\ UNCHANGED ChatHistory
               ELSE /\ ChatHistory' = MapDelete(ChatHistory, uid)
                    /\ ChatReturned("clear", uid, FALSE, Cleared, << >>)

ChatRest == UNCHANGED <<AuthExpireSecs, authVars, loginVars, storeVars, adminVars, touchVars>>

UpdateChatHistory == ChatRest /\ \E uid \in ChatUids, msg \in ChatMessages : handleUpdateChatHistory(uid, msg)

GetLastChatContent == ChatRest /\ \E uid \in ChatUids : handleGetLastChatContent(uid)

ClearChatHistory == ChatRest /\ \E uid \in ChatUids : handleClearChatHistory(uid)

ChatNext ==
    \/ UpdateChatHistory
    \/ GetLastChatContent
    \/ ClearChatHistory

\* ------------------------------------------------------------------ message dispatcher: action and the request handlers

\* At most this many messages reach action().
MaxInbound == 2

\* xmlMsg.FromUserName of the messages.
DispatchUids == {"u1", Quoted}

\* xmlMsg.Content of text messages.
TextContents == {"", "/pre", "/new", "/help", "/status", "hi"}

\* xmlMsg.ScanCodeInfo.ScanResult: env.TicketPrefix followed by a ticket of
\* env.TicketSize characters, or anything else.
ScanResults == {"qr:t1", "junk"}

TicketOf(raw) == IF raw = "qr:t1" THEN "t1" ELSE ""

XmlMsg(type, event, key, content, scan) ==
    [MsgType |-> type, Event |-> event, EventKey |-> key, Content |-> content, ScanResult |-> scan]

XmlMsgs ==
    {XmlMsg("event", "subscribe", "", "", ""), XmlMsg("event", "CLICK", "GetCode", "", ""),
     XmlMsg("event", "CLICK", "NewChat", "", ""), XmlMsg("event", "unsubscribe", "", "", ""),
     XmlMsg("image", "", "", "", "")}
    \cup {XmlMsg("event", "scancode_waitmsg", "CallScan", "", raw) : raw \in ScanResults}
    \cup {XmlMsg("text", "", "", content, "") : content \in TextContents}

\* PipelineStage
receive == <<"r", "e", "c", "e", "i", "v", "e">>

command == <<"c", "o", "m", "m", "a", "n", "d">>

db == <<"d", "b">>

llm == <<"l", "l", "m">>

error == <<"e", "r", "r", "o", "r">>

send == <<"s", "e", "n", "d">>

\* endTime - startTime of a step ended in the run that started it, and of one
\* ended after an await.
SameRun == Num(0)

Awaited == Num(12)

\* The contents the handlers put into a reply.
Welcome == "welcome"

NotQr == "not a login code"

Unhandled == "unhandled event type"

TextOnly == "text only"

NotUnderstood == "not understood"

HelpText == "help"

StatusText == "status"

NoRecord == "no record"

CommandFailed == "command failed"

\* What the caller of rootHandler gets when action() rejects: "Failed" from
\* the catch of actionAes; nothing from actionPlain, whose promise rejects.
Failed == "Failed"

Rejection == "rejected"

\* MessagePipeline.startStep
startStep(q, stage) ==
    [q EXCEPT !.steps = Append(@, [stage |-> stage, success |-> FALSE, duration |-> Absent])]

\* MessagePipeline.endStep on the step started last.
endStep(q, success, duration) ==
    [q EXCEPT !.steps[Len(q.steps)] = [@ EXCEPT !.success = success, !.duration = duration]]

\* A step started and ended in one run.
doneStep(q, stage, success) == endStep(startStep(q, stage), success, SameRun)

\* MessagePipeline.commitAsync: buildSessionLog and the call of
\* handleSessionLogInsert, which nobody awaits.
dispatchCommit(q) == [q EXCEPT !.commits = @ + 1, !.insert = "pending", !.log = q.steps]

\* The end of every handler with a pipeline: the send step, commitAsync and
\* the reply.
sendReply(q, content) ==
    [dispatchCommit(doneStep(q, send, TRUE)) EXCEPT !.reply = content, !.pc = "returned"]

\* The handler's promise rejects.
rejected(q) == [q EXCEPT !.pc = "threw", !.reply = IF AesMode THEN Failed ELSE Rejection]

\* The catch block of actionText.
caught(q) == sendReply(doneStep(q, error, FALSE), Oops)

traced(q, outcome) == [q EXCEPT !.trace = Append(@, outcome)]

NewRequest(uid, msg) ==
    [uid |-> uid, msg |-> msg, pc |-> "new", steps |-> << >>, reply |-> None, commits |-> 0,
     insert |-> "none", log |-> << >>, trace |-> << >>, content |-> "", tokens |-> 0]

\* createPipeline and the receive step.
received(uid, msg) == doneStep(NewRequest(uid, msg), receive, TRUE)

\* The command of the registry a content matches.
CommandOf(content) ==
    CASE content = "/pre" -> "pre"
      [] content = "/new" -> "new"
      [] content = "/help" -> "help"
      [] content = "/status" -> "status"
      [] OTHER -> "none"

actionSubscribe(uid, msg) == sendReply(received(uid, msg), Welcome)

\* actionCode up to await durable.handleGetCodeByUid.
actionCode(uid, msg) == [startStep(received(uid, msg), db) EXCEPT !.pc = "code"]

\* actionNewChat up to await durable.handleClearChatHistory.
actionNewChat(uid, msg) == [startStep(received(uid, msg), db) EXCEPT !.pc = "clear"]

\* actionScan up to await durable.handleQrcodeLogin, or to its end.
actionScan(uid, msg) ==
    IF TicketOf(msg.ScanResult) # ""
    THEN [startStep(received(uid, msg), db) EXCEPT !.pc = "scan"]
    ELSE sendReply(received(uid, msg), NotQr)

\* actionText up to the first call of the Durable.
actionText(uid, msg) ==
    LET q == startStep(received(uid, msg), command) IN
    IF msg.Content = ""
    THEN sendReply(endStep(q, TRUE, SameRun), NotUnderstood)
    ELSE CASE CommandOf(msg.Content) = "help" -> sendReply(endStep(q, TRUE, SameRun), HelpText)
           [] CommandOf(msg.Content) \in {"pre", "new", "status"} -> [q EXCEPT !.pc = "command"]
           [] OTHER -> [startStep(endStep(q, FALSE, SameRun), db) EXCEPT !.pc = "history"]

actionTextOnly(uid, msg) == [NewRequest(uid, msg) EXCEPT !.reply = TextOnly, !.pc = "returned"]

\* action(xmlMsg, ...): the dispatch, and the handler's run to its first await.
action(uid, msg) ==
    IF msg.MsgType = "event"
    THEN CASE msg.Event = "subscribe" -> actionSubscribe(uid, msg)
           [] msg.Event # "subscribe" /\ msg.EventKey = "GetCode" -> actionCode(uid, msg)
           [] msg.Event # "subscribe" /\ msg.EventKey = "CallScan" -> actionScan(uid, msg)
           [] msg.Event # "subscribe" /\ msg.EventKey = "NewChat" -> actionNewChat(uid, msg)
           [] OTHER -> [NewRequest(uid, msg) EXCEPT !.reply = Unhandled, !.pc = "returned"]
    ELSE IF msg.MsgType = "text" THEN actionText(uid, msg)
    ELSE actionTextOnly(uid, msg)

Continue(r, q) == inbound' = [inbound EXCEPT ![r] = q]

Fixed == UNCHANGED <<AuthExpireSecs, AesMode, queryRet, sessionCalls, touchVars>>

Action ==
    /\ Len(inbound) < MaxInbound
    /\ \E uid \in DispatchUids, msg \in XmlMsgs : inbound' = Append(inbound, action(uid, msg))
    /\ Fixed
    /\ UNCHANGED <<authVars, loginVars, storeVars, chatVars>>

\* A step that changes nothing but the request: a call that throws, or no call of the Durable.
OnlyRequest(r, q) ==
    /\ Continue(r, q)
    /\ Fixed
    /\ UNCHANGED <<authVars, loginVars, storeVars, chatVars>>

\* actionCode after handleGetCodeByUid.
codeReturned(r, ok) ==
    LET q == inbound[r] IN
    /\ q.pc = "code"
    /\ IF ok
       THEN /\ handleGetCodeByUid(q.uid)
            /\ Continue(r, sendReply(endStep(traced(q, authRet'.code), TRUE, Awaited), authRet'.code))
            /\ Fixed
            /\ UNCHANGED <<loginVars, storeVars, chatVars>>
       ELSE OnlyRequest(r, rejected(traced(q, "throw")))

\* actionNewChat after handleClearChatHistory.
clearReturned(r, ok) ==
    LET q == inbound[r] IN
    /\ q.pc = "clear"
    /\ IF ok
       THEN /\ handleClearChatHistory(q.uid)
            /\ Continue(r, IF chatRet'.threw THEN rejected(traced(q, "throw"))
                         ELSE sendReply(endStep(traced(q, chatRet'.text), TRUE, Awaited), chatRet'.text))
            /\ Fixed
            /\ UNCHANGED <<authVars, loginVars, storeVars>>
       ELSE OnlyRequest(r, rejected(traced(q, "throw")))

\* actionScan after handleQrcodeLogin.
scanReturned(r, ok) ==
    LET q == inbound[r] IN
    /\ q.pc = "scan"
    /\ IF ok
       THEN /\ handleQrcodeLogin(TicketOf(q.msg.ScanResult), q.uid)
            /\ Continue(r, sendReply(endStep(traced(q, pushRet'.ret), pushRet'.ret = LoginOk, Awaited),
                                   pushRet'.ret))
            /\ Fixed
            /\ UNCHANGED <<authVars, storeVars, chatVars>>
       ELSE OnlyRequest(r, rejected(traced(q, "throw")))

\* actionText after handleCommand, handled: the command step, and the db
\* step with logUserMessage when the result is to be logged.
handled(q, content, shouldLog) ==
    LET c == [endStep(traced(q, content), TRUE, Awaited) EXCEPT !.content = content] IN
    IF shouldLog THEN [startStep(c, db) EXCEPT !.pc = "logUserCommand"] ELSE sendReply(c, content)

\* handleCommand: the handler of the matched command, whose throw it catches.
commandReturned(r, ok) ==
    LET q == inbound[r] IN
    /\ q.pc = "command"
    /\ Fixed
    /\ UNCHANGED <<authVars, loginVars, storeVars>>
    /\ IF ~ok
       THEN Continue(r, handled(q, CommandFailed, TRUE)) /\ UNCHANGED chatVars
       ELSE CASE CommandOf(q.msg.Content) = "pre" ->
                    /\ handleGetLastChatContent(q.uid)
                    /\ Continue(r, handled(q, chatRet'.text, TRUE))
              [] CommandOf(q.msg.Content) = "new" ->
                    /\ handleClearChatHistory(q.uid)
                    /\ Continue(r, IF chatRet'.threw THEN handled(q, CommandFailed, TRUE)
                                 ELSE handled(q, chatRet'.text, TRUE))
              [] OTHER ->
                    /\ Continue(r, handled(q, IF q.uid \in DOMAIN users THEN StatusText ELSE NoRecord, FALSE))
                    /\ UNCHANGED chatVars

\* A handleConversationInsert of a request handler.
conversationInsert(q, role, content) ==
    /\ handleConversationInsert("logConversation", q.uid, role, content)
    /\ Fixed
    /\ UNCHANGED <<LoggerClients, logWriters, logs, sessionLogs, users, authLogs, requests, now>>
    /\ UNCHANGED <<authVars, loginVars, chatVars>>

\* The command branch after pipeline.logUserMessage().
commandUserLogged(r, ok) ==
    LET q == inbound[r] IN
    /\ q.pc = "logUserCommand"
    /\ IF ok
       THEN /\ conversationInsert(q, "user", q.msg.Content)
            /\ Continue(r, [traced(q, "ok") EXCEPT !.pc = "logAssistantCommand"])
       ELSE OnlyRequest(r, rejected(traced(q, "throw")))

\* The command branch after pipeline.logAssistantMessage().
commandAssistantLogged(r, ok) ==
    LET q == inbound[r] IN
    /\ q.pc = "logAssistantCommand"
    /\ IF ok
       THEN /\ conversationInsert(q, "assistant", q.content)
            /\ Continue(r, sendReply(endStep(traced(q, "ok"), TRUE, Awaited), q.content))
       ELSE OnlyRequest(r, rejected(traced(q, "throw")))

\* The LLM branch after handleUpdateChatHistory of the user's message.
historyReturned(r, ok) ==
    LET q == inbound[r] IN
    /\ q.pc = "history"
    /\ IF ok
       THEN /\ handleUpdateChatHistory(q.uid, [role |-> "user", content |-> q.msg.Content])
            /\ Continue(r, [startStep(endStep(traced(q, "ok"), TRUE, Awaited), llm) EXCEPT !.pc = "llm"])
            /\ Fixed
            /\ UNCHANGED <<authVars, loginVars, storeVars>>
       ELSE OnlyRequest(r, caught(traced(q, "throw")))

\* The LLM branch after env.AI.run: an empty answer is replaced.
llmReturned(r, ok, answer, tokens) ==
    LET q == inbound[r]
        content == IF answer = "" THEN Apology ELSE answer
        c == [endStep(traced(q, answer), content # "", Awaited) EXCEPT !.content = content, !.tokens = tokens]
    IN /\ q.pc = "llm"
       /\ OnlyRequest(r, IF ~ok THEN caught(traced(q, "throw"))
                    ELSE IF tokens > 0 THEN [c EXCEPT !.pc = "tokens"]
                    ELSE [startStep(c, db) EXCEPT !.pc = "history2"])

\* The LLM branch after handleUserAddTokens.
tokensReturned(r, ok) ==
    LET q == inbound[r] IN
    /\ q.pc = "tokens"
    /\ IF ok
       THEN /\ users' = handleUserAddTokens(users, q.uid, q.tokens)
            /\ StoreReturned("addTokens", q.uid, q.tokens)
            /\ Continue(r, [startStep(traced(q, "ok"), db) EXCEPT !.pc = "history2"])
            /\ Fixed
            /\ UNCHANGED <<LoggerClients, logWriters, logs, sessionLogs, authLogs, conversations, requests, now>>
            /\ UNCHANGED <<authVars, loginVars, chatVars>>
       ELSE OnlyRequest(r, caught(traced(q, "throw")))

\* The LLM branch after handleUpdateChatHistory of the answer.
answerReturned(r, ok) ==
    LET q == inbound[r] IN
    /\ q.pc = "history2"
    /\ IF ok
       THEN /\ handleUpdateChatHistory(q.uid, [role |-> "assistant", content |-> q.content])
            /\ Continue(r, [traced(q, "ok") EXCEPT !.pc = "logUser"])
            /\ Fixed
            /\ UNCHANGED <<authVars, loginVars, storeVars>>
       ELSE OnlyRequest(r, caught(traced(q, "throw")))

\* The LLM branch after pipeline.logUserMessage().
userLogged(r, ok) ==
    LET q == inbound[r] IN
    /\ q.pc = "logUser"
    /\ IF ok
       THEN /\ conversationInsert(q, "user", q.msg.Content)
            /\ Continue(r, [traced(q, "ok") EXCEPT !.pc = "logAssistant"])
       ELSE OnlyRequest(r, caught(traced(q, "throw")))

\* The LLM branch after pipeline.logAssistantMessage().
assistantLogged(r, ok) ==
    LET q == inbound[r] IN
    /\ q.pc = "logAssistant"
    /\ IF ok
       THEN /\ conversationInsert(q, "assistant", q.content)
            /\ Continue(r, sendReply(endStep(traced(q, "ok"), TRUE, Awaited), q.content))
       ELSE OnlyRequest(r, caught(traced(q, "throw")))

\* The handleSessionLogInsert of commitAsync runs in the Durable.
insertStored(r) ==
    LET q == inbound[r] IN
    /\ q.insert = "pending"
    /\ handleSessionLogInsert(q.uid, q.log)
    /\ Continue(r, [q EXCEPT !.insert = "stored"])
    /\ Fixed
    /\ UNCHANGED <<requests, authVars, loginVars, chatVars>>

\* insertFailed that hands the failure to the caller.
insertFailedSurfaces(r) ==
    LET q == inbound[r] IN
    /\ q.insert = "pending"
    /\ OnlyRequest(r, [q EXCEPT !.insert = "failed", !.reply = Failed])

\* The handleSessionLogInsert of commitAsync rejects: ctx.waitUntil takes the
\* promise, nobody else sees it.
insertFailed(r) ==
    LET q == inbound[r] IN
    /\ q.insert = "pending"
    /\ OnlyRequest(r, [q EXCEPT !.insert = "failed"])

InboundIds == 1..Len(inbound)

CodeReturned == \E r \in InboundIds, ok \in BOOLEAN : codeReturned(r, ok)

ClearReturned == \E r \in InboundIds, ok \in BOOLEAN : clearReturned(r, ok)

ScanReturned == \E r \in InboundIds, ok \in BOOLEAN : scanReturned(r, ok)

CommandReturned == \E r \in InboundIds, ok \in BOOLEAN : commandReturned(r, ok)

CommandUserLogged == \E r \in InboundIds, ok \in BOOLEAN : commandUserLogged(r, ok)

CommandAssistantLogged == \E r \in InboundIds, ok \in BOOLEAN : commandAssistantLogged(r, ok)

HistoryReturned == \E r \in InboundIds, ok \in BOOLEAN : historyReturned(r, ok)

LlmReturned ==
    \E r \in InboundIds, ok \in BOOLEAN, answer \in Contents, tokens \in TokenCounts :
        llmReturned(r, ok, answer, tokens)

TokensReturned == \E r \in InboundIds, ok \in BOOLEAN : tokensReturned(r, ok)

AnswerReturned == \E r \in InboundIds, ok \in BOOLEAN : answerReturned(r, ok)

UserLogged == \E r \in InboundIds, ok \in BOOLEAN : userLogged(r, ok)

AssistantLogged == \E r \in InboundIds, ok \in BOOLEAN : assistantLogged(r, ok)

InsertStored == \E r \in InboundIds : insertStored(r)

InsertFailed == \E r \in InboundIds : insertFailed(r)

DispatchNext ==
    \/ Action
    \/ CodeReturned
    \/ ClearReturned
    \/ ScanReturned
    \/ CommandReturned
    \/ CommandUserLogged
    \/ CommandAssistantLogged
    \/ HistoryReturned
    \/ LlmReturned
    \/ TokensReturned
    \/ AnswerReturned
    \/ UserLogged
    \/ AssistantLogged
    \/ InsertStored
    \/ InsertFailed

\* ------------------------------------------------------------------ admin API: the query family

\* Rows a table holds at most, apart from BigLogs; timestamps are 1..MaxTime.
MaxQRows == 2

MaxTime == 2

Times == 1..MaxTime

\* LIMIT 100 of the Durable queries, and the limit handleApi passes when the
\* URL has none.
DefaultLimit == 100

ApiLimit == 50

\* parseInt(s): the longest prefix of digits read in base ten, NaN without one.
ParseInt(s) ==
    LET digits[i \in 0..Len(s)] ==
            IF i < Len(s) /\ s[i + 1] \in DOMAIN DigitValue THEN digits[i + 1] + 1 ELSE 0
        value[i \in 0..Len(s)] ==
            IF i = 0 THEN 0 ELSE 10 * value[i - 1] + DigitValue[s[i]]
        d == IF Len(s) > 0 /\ s[1] \in DOMAIN DigitValue
             THEN CHOOSE k \in 1..Len(s) :
                     /\ \A i \in 1..k : s[i] \in DOMAIN DigitValue
                     /\ (k < Len(s) => s[k + 1] \notin DOMAIN DigitValue)
             ELSE 0
    IN IF d = 0 THEN NaN ELSE Num(value[d])

\* url.searchParams.get(name) ? parseInt(url.searchParams.get(name)!) : default
ParseOr(s, default) == IF s = << >> THEN default ELSE ParseInt(s)

Reverse(s) == [i \in 1..Len(s) |-> s[Len(s) + 1 - i]]

\* ORDER BY key DESC / ASC over keys 0..MaxTime. SQL leaves the order of rows
\* with equal keys open: they come in rowid order or in reverse rowid order,
\* as the chosen index is scanned.
OrderByDesc(rows, column, tieAsc) ==
    LET from[t \in -1..MaxTime] ==
            IF t < 0 THEN << >>
            ELSE (IF tieAsc THEN SelectSeq(rows, LAMBDA r : r[column] = t)
                  ELSE Reverse(SelectSeq(rows, LAMBDA r : r[column] = t))) \o from[t - 1]
    IN from[MaxTime]

OrderByAsc(rows, column, tieAsc) == Reverse(OrderByDesc(rows, column, ~tieAsc))

\* LIMIT limit OFFSET offset; a negative LIMIT is no limit.
Limit(rows, limit, offset) ==
    LET first == IF offset > 0 THEN offset + 1 ELSE 1
        last == IF limit < 0 \/ first + limit - 1 > Len(rows) THEN Len(rows) ELSE first + limit - 1
    IN SubSeq(rows, first, last)

\* The LIMIT and OFFSET every query of the family appends to its SQL.
LimitOf(filter) == IF NumTruthy(filter.limit) THEN filter.limit.n ELSE DefaultLimit

OffsetOf(filter) == IF NumTruthy(filter.offset) THEN filter.offset.n ELSE 0

\* handleLogQuery without the LIMIT 100 of a filter that has no limit.
handleLogQueryNoDefault(T, filter, tieAsc) ==
    LET where(r) ==
            /\ Truthy(filter.type) => r.type = filter.type
            /\ Truthy(filter.uid) => r.uid = filter.uid
            /\ NumTruthy(filter.startTime) => r.timestamp >= filter.startTime.n
            /\ NumTruthy(filter.endTime) => r.timestamp <= filter.endTime.n
    IN Limit(OrderByDesc(SelectSeq(T, where), "timestamp", tieAsc),
             IF NumTruthy(filter.limit) THEN filter.limit.n ELSE -1, OffsetOf(filter))

\* handleLogQuery(filter) on the table T.
handleLogQuery(T, filter, tieAsc) ==
    LET where(r) ==
            /\ Truthy(filter.type) => r.type = filter.type
            /\ Truthy(filter.uid) => r.uid = filter.uid
            /\ NumTruthy(filter.startTime) => r.timestamp >= filter.startTime.n
            /\ NumTruthy(filter.endTime) => r.timestamp <= filter.endTime.n
    IN Limit(OrderByDesc(SelectSeq(T, where), "timestamp", tieAsc), LimitOf(filter), OffsetOf(filter))

\* handleConversationDetail(uid, limit = 100) on the table T.
handleConversationDetail(T, uid, limit, tieAsc) ==
    Limit(OrderByAsc(SelectSeq(T, LAMBDA r : r.uid = uid), "timestamp", tieAsc),
          IF limit = Absent THEN DefaultLimit ELSE limit.n, 0)

\* The rows of `users` in rowid order.
UserRows(U) ==
    LET rows[i \in 0..Len(UidNames)] ==
            IF i = 0 THEN << >>
            ELSE IF UidNames[i] \in DOMAIN U
                 THEN Append(rows[i - 1], [uid |-> UidNames[i], lastSeen |-> U[UidNames[i]].lastSeen,
                                           status |-> U[UidNames[i]].status])
                 ELSE rows[i - 1]
    IN rows[Len(UidNames)]

\* handleUserList(filter) on the table U.
handleUserList(U, filter, tieAsc) ==
    LET where(r) == Truthy(filter.status) => r.status = filter.status
    IN Limit(OrderByDesc(SelectSeq(UserRows(U), where), "lastSeen", tieAsc),
             LimitOf(filter), OffsetOf(filter))

\* handleAuthLogQuery(filter) on the table T; filter.success is undefined
\* (None), "true" or "false" here.
handleAuthLogQuery(T, filter, tieAsc) ==
    LET where(r) ==
            /\ Truthy(filter.uid) => r.uid = filter.uid
            /\ Truthy(filter.authType) => r.authType = filter.authType
            /\ filter.success # None => r.success = (filter.success = "true")
            /\ NumTruthy(filter.startTime) => r.timestamp >= filter.startTime.n
            /\ NumTruthy(filter.endTime) => r.timestamp <= filter.endTime.n
    IN Limit(OrderByDesc(SelectSeq(T, where), "timestamp", tieAsc), LimitOf(filter), OffsetOf(filter))

\* handleSessionLogQuery(filter) on the table T.
handleSessionLogQuery(T, filter, tieAsc) ==
    LET where(r) ==
            /\ Truthy(filter.uid) => r.uid = filter.uid
            /\ Truthy(filter.msgType) => r.msgType = filter.msgType
            /\ NumTruthy(filter.startTime) => r.timestamp >= filter.startTime.n
            /\ NumTruthy(filter.endTime) => r.timestamp <= filter.endTime.n
    IN Limit(OrderByDesc(SelectSeq(T, where), "timestamp", tieAsc), LimitOf(filter), OffsetOf(filter))

\* handleApi, route "logs": the LogFilter built from the URL.
apiLogsFilter(params) ==
    [type |-> params.type,
     uid |-> IF Truthy(params.uid) THEN params.uid ELSE None,
     startTime |-> ParseOr(params.startTime, Absent),
     endTime |-> ParseOr(params.endTime, Absent),
     limit |-> ParseOr(params.limit, Num(ApiLimit)),
     offset |-> ParseOr(params.offset, Num(0))]

\* handleApi, route "users": the UserFilter built from the URL.
apiUsersFilter(params) ==
    [status |-> params.status,
     limit |-> ParseOr(params.limit, Num(ApiLimit)),
     offset |-> ParseOr(params.offset, Num(0))]

\* handleApi, route "auth": the AuthFilter built from the URL.
apiAuthFilter(params) ==
    [uid |-> IF Truthy(params.uid) THEN params.uid ELSE None,
     authType |-> params.authType,
     success |-> IF params.success # None
                 THEN (IF params.success = "true" THEN "true" ELSE "false")
                 ELSE None,
     startTime |-> ParseOr(params.startTime, Absent),
     endTime |-> ParseOr(params.endTime, Absent),
     limit |-> ParseOr(params.limit, Num(ApiLimit)),
     offset |-> ParseOr(params.offset, Num(0))]

QueryReturned(op, filter, tieAsc, rows) ==
    queryRet' = [op |-> op, filter |-> filter, tieAsc |-> tieAsc, rows |-> rows]

NoQuery == [op |-> "init", filter |-> None, tieAsc |-> TRUE, rows |-> << >>]

AdminInit ==
    /\ queryRet = NoQuery
    /\ sessionCalls = << >>
    /\ inbound = << >>

\* The inputs of the queries.
LogTypes == {"error", "wx_text"}

TypeParams == {None, "error", "bogus"}

NumberArgs == {Absent, NaN, Num(1), Num(2)}

NumberParams == {<< >>, <<"1">>, <<"2", "x">>, <<"a", "b", "c">>}

LogFilters ==
    [type : {None} \cup LogTypes, uid : {None, UidNames[1]}, startTime : {Absent, Num(2)},
     endTime : {Absent, Num(1)}, limit : NumberArgs, offset : {Absent, Num(1)}]

UserFilters == [status : {None, "active", "banned"}, limit : NumberArgs, offset : {Absent, Num(1)}]

AuthFilters ==
    [uid : {None, UidNames[1]}, authType : {None, "scan", "code"}, success : {None, "true", "false"},
     startTime : {Absent}, endTime : {Absent}, limit : NumberArgs, offset : {Absent, Num(1)}]

SessionFilters ==
    [uid : {None, UidNames[1]}, msgType : {None, "text", "event"}, startTime : {Absent, Num(2)},
     endTime : {Absent}, limit : NumberArgs, offset : {Absent, Num(1)}]

LogParams ==
    [type : TypeParams, uid : {None}, startTime : {<< >>}, endTime : {<< >>},
     limit : NumberParams, offset : NumberParams]

UserParams == [status : {None, "banned", "bogus"}, limit : NumberParams, offset : NumberParams]

AuthParams ==
    [uid : {None}, authType : {None, "scan", "bogus"}, success : {None, "true", "maybe"},
     startTime : {<< >>}, endTime : {<< >>}, limit : NumberParams, offset : NumberParams]

\* The contents of the tables: every sequence of at most MaxQRows rows, with
\* the columns the queries read, and one table of more than DefaultLimit rows.
SeqsUpTo(S, n) == UNION {[1..k -> S] : k \in 0..n}

WithIds(rows) == [i \in DOMAIN rows |-> [id |-> i] @@ rows[i]]

\* Every third row of BigLogs is a "wx_text" row, the others "error" rows:
\* more than DefaultLimit of them.
BigRows == 153

BigLogs ==
    [i \in 1..BigRows |->
        [id |-> i, timestamp |-> 1 + (i % MaxTime),
         type |-> IF i % 3 = 0 THEN "wx_text" ELSE "error", uid |-> UidNames[1]]]

LogTables ==
    {WithIds(rows) : rows \in SeqsUpTo([timestamp : Times, type : LogTypes, uid : {UidNames[1]}],
                                       MaxQRows)}
    \cup {BigLogs}

ConversationTables ==
    {WithIds(rows) : rows \in SeqsUpTo([timestamp : Times, uid : Uids, role : {"user"},
                                        content : {"hi"}], MaxQRows)}

UserTables ==
    UNION {[S -> [lastSeen : Times, status : {"active", "banned"}]] : S \in SUBSET Uids}

AuthTables ==
    {WithIds(rows) : rows \in SeqsUpTo([timestamp : Times, uid : {UidNames[1]},
                                        authType : {"scan", "code"}, success : BOOLEAN], MaxQRows)}

SessionTables ==
    {WithIds(rows) : rows \in SeqsUpTo([timestamp : Times, uid : {UidNames[1]},
                                        msgType : {"text", "event"}], MaxQRows)}

\* The store with rows in one of its tables, before any query.
QueryInit ==
    /\ AuthInit
    /\ LoginInit
    /\ AdminInit
    /\ calls = << >>
    /\ AesMode = FALSE
    /\ ChatInit
    /\ LoggerClients = EmptyMap
    /\ logWriters = << >>
    /\ requests = << >>
    /\ storeRet = [op |-> "init", uid |-> None, ret |-> 0, sent |-> 0, failed |-> 0]
    /\ now = 0
    /\ \E table \in {"logs", "conversations", "users", "auth_logs", "session_logs"} :
          /\ logs \in (IF table = "logs" THEN LogTables ELSE {<< >>})
          /\ conversations \in (IF table = "conversations" THEN ConversationTables ELSE {<< >>})
          /\ users \in (IF table = "users" THEN UserTables ELSE {EmptyMap})
          /\ authLogs \in (IF table = "auth_logs" THEN AuthTables ELSE {<< >>})
          /\ sessionLogs \in (IF table = "session_logs" THEN SessionTables ELSE {<< >>})

\* A query changes nothing but what it returns, and what it returns depends on
\* the tables and its arguments only: the states after one query are the
\* states after any number of them.
Reads ==
    /\ queryRet = NoQuery
    /\ UNCHANGED <<AuthExpireSecs, authVars, loginVars, storeVars, sessionCalls, chatVars, AesMode, inbound, touchVars>>

LogQuery ==
    /\ Reads
    /\ \E filter \in LogFilters, tieAsc \in BOOLEAN :
          QueryReturned("queryLogs", filter, tieAsc, handleLogQuery(logs, filter, tieAsc))

ConversationDetail ==
    /\ Reads
    /\ \E uid \in Uids, limit \in {Absent, Num(1)}, tieAsc \in BOOLEAN :
          QueryReturned("queryConversationsByUser", [uid |-> uid, limit |-> limit], tieAsc,
                        handleConversationDetail(conversations, uid, limit, tieAsc))

UserList ==
    /\ Reads
    /\ \E filter \in UserFilters, tieAsc \in BOOLEAN :
          QueryReturned("queryUsers", filter, tieAsc, handleUserList(users, filter, tieAsc))

AuthLogQuery ==
    /\ Reads
    /\ \E filter \in AuthFilters, tieAsc \in BOOLEAN :
          QueryReturned("queryAuthRecords", filter, tieAsc, handleAuthLogQuery(authLogs, filter, tieAsc))

SessionLogQuery ==
    /\ Reads
    /\ \E filter \in SessionFilters, tieAsc \in BOOLEAN :
          QueryReturned("querySessionLogs", filter, tieAsc,
                        handleSessionLogQuery(sessionLogs, filter, tieAsc))

ApiLogs ==
    /\ Reads
    /\ \E params \in LogParams, tieAsc \in BOOLEAN :
          QueryReturned("apiLogs", params, tieAsc, handleLogQuery(logs, apiLogsFilter(params), tieAsc))

ApiUsers ==
    /\ Reads
    /\ \E params \in UserParams, tieAsc \in BOOLEAN :
          QueryReturned("apiUsers", params, tieAsc, handleUserList(users, apiUsersFilter(params), tieAsc))

ApiAuth ==
    /\ Reads
    /\ \E params \in AuthParams, tieAsc \in BOOLEAN :
          QueryReturned("apiAuth", params, tieAsc,
                        handleAuthLogQuery(authLogs, apiAuthFilter(params), tieAsc))

QueryNext ==
    \/ LogQuery
    \/ ConversationDetail
    \/ UserList
    \/ AuthLogQuery
    \/ SessionLogQuery
    \/ ApiLogs
    \/ ApiUsers
    \/ ApiAuth

\* ------------------------------------------------------------------ SessionLog: commit and detail

\* handleSessionLogDetail(id) on the table T: no row is null (<< >> here),
\* else the row with JSON.parse(row.steps || "[]").
handleSessionLogDetail(T, id) ==
    LET rows == SelectSeq(T, LAMBDA r : r.id = id)
    IN IF Len(rows) = 0 THEN << >>
       ELSE <<[id |-> rows[1].id, uid |-> rows[1].uid,
               steps |-> JSONparse(IF rows[1].steps = << >> THEN <<"[", "]">> ELSE rows[1].steps)]>>

\* MessagePipeline.commit(): buildSessionLog, handleSessionLogInsert awaited,
\* its id returned to the caller.
commit(uid, steps) ==
    /\ handleSessionLogInsert(uid, steps)
    /\ sessionCalls' = Append(sessionCalls, [steps |-> steps, id |-> Len(sessionLogs) + 1])

Commit ==
    /\ \E steps \in StepLists : commit(UidNames[1], steps)
    /\ UNCHANGED <<AuthExpireSecs, authVars, loginVars, requests, queryRet, chatVars, AesMode, inbound, touchVars>>

\* The Durable answers a handleSessionLogDetail(id) call.
sessionLogDetail(id) ==
    /\ QueryReturned("sessionLogDetail", id, TRUE, handleSessionLogDetail(sessionLogs, id))
    /\ UNCHANGED <<AuthExpireSecs, authVars, loginVars, storeVars, sessionCalls, chatVars, AesMode, inbound, touchVars>>

SessionLogDetail == \E id \in 1..(Len(sessionLogs) + 1) : sessionLogDetail(id)

SessionNext ==
    \/ Commit
    \/ SessionLogDetail

\* -------------------------------------------------------- the actor restarts

\* The loop over `SELECT * FROM messages` of the constructor: each row, in the
\* order of insertion, is pushed on the history of its uid, which starts empty.
RECURSIVE hydrate(_, _)
hydrate(H, rows) ==
    IF rows = << >> THEN H
    ELSE LET row == Head(rows)
             got == IF row.uid \in DOMAIN H THEN H[row.uid] ELSE << >>
         IN hydrate(MapSet(H, row.uid, Append(got, [role |-> row.role, content |-> row.content])),
                    Tail(rows))

\* The actor is evicted and constructed again: the maps are new, the tables
\* are kept (CREATE TABLE IF NOT EXISTS), the chat histories are read back.
constructor ==
    /\ ChatHistory' = hydrate(EmptyMap, messages)
    /\ ChatReturned("restart", None, FALSE, None, << >>)
    /\ CodeUidMap' = EmptyMap
    /\ UidCodeMap' = EmptyMap
    /\ Clients' = EmptyMap
    /\ LoggerClients' = EmptyMap
    /\ UNCHANGED <<messages, appends>>

Restart ==
    /\ constructor
    /\ UNCHANGED <<AuthExpireSecs, expiryTimers, authRet, authPrev, adminVars, touchVars,
                   writers, heartbeats, readyWrites, pushes, pushRet, pushCount, faults, closeTasks,
                   logWriters, logs, sessionLogs, users, authLogs, conversations, requests,
                   storeRet, now>>

RestartNext ==
    \/ UpdateChatHistory
    \/ GetLastChatContent
    \/ ClearChatHistory
    \/ Restart

\* ------------------------------------------------ the insert calls in flight

\* At most this many handleLogInsert, handleSessionLogInsert and direct
\* handleUserTouch calls.
MaxCalls == 3

TouchInit == calls = << >>

\* The calls suspended on `await this.handleUserTouch(...)`.
Awaiting == {c \in DOMAIN calls : calls[c].pc = "awaiting"}

\* A call after its first run: with a uid it is suspended on the await of the
\* touch, without one it has returned its id.
Call(op, uid, id) ==
    [op |-> op, uid |-> uid, id |-> id,
     sent |-> Cardinality(DOMAIN LoggerClients \ Rejected), failed |-> Cardinality(Rejected),
     overlaps |-> Cardinality(Awaiting),
     pc |-> IF Truthy(uid) THEN "awaiting" ELSE "returned"]

CallReturned(call) ==
    storeRet' = [op |-> call.op, uid |-> call.uid, ret |-> call.id,
                 sent |-> call.sent, failed |-> call.failed]

\* handleLogInsert from its entry to `await this.handleUserTouch(entry.uid)`:
\* the INSERT, the broadcast and the whole body of handleUserTouch, which has no
\* await of its own, run in one turn.
logInsertCalled(uid) ==
    /\ Len(calls) < MaxCalls
    /\ now' = now + 1
    /\ LET entry == [id |-> Len(logs) + 1, uid |-> uid]
           call == Call("insertLog", uid, entry.id) IN
          /\ logs' = Append(logs, entry)
          /\ broadcastLog(entry)
          /\ users' = IF Truthy(uid) THEN handleUserTouch(users, uid, now + 1) ELSE users
          /\ calls' = Append(calls, call)
          /\ IF Truthy(uid) THEN UNCHANGED storeRet ELSE CallReturned(call)
    /\ UNCHANGED <<sessionLogs, authLogs, conversations, requests>>

\* handleSessionLogInsert from its entry to `await this.handleUserTouch(log.uid)`.
sessionLogInsertCalled(uid, steps) ==
    /\ Len(calls) < MaxCalls
    /\ now' = now + 1
    /\ LET log == [id |-> Len(sessionLogs) + 1, uid |-> uid, steps |-> JSONstringify(steps)]
           call == Call("insertSessionLog", uid, log.id) IN
          /\ sessionLogs' = Append(sessionLogs, log)
          /\ broadcastSessionLog(log)
          /\ users' = IF Truthy(uid) THEN handleUserTouch(users, uid, now + 1) ELSE users
          /\ calls' = Append(calls, call)
          /\ IF Truthy(uid) THEN UNCHANGED storeRet ELSE CallReturned(call)
    /\ UNCHANGED <<logs, authLogs, conversations, requests>>

\* The call resumes from the await and returns its id.
insertReturned(c) ==
    /\ calls[c].pc = "awaiting"
    /\ calls' = [calls EXCEPT ![c].pc = "returned"]
    /\ CallReturned(calls[c])
    /\ UNCHANGED <<LoggerClients, logWriters, logs, sessionLogs, users, authLogs, conversations,
                   requests, now>>

\* handleUserTouch(uid) called on the stub: it has no guard on its argument.
userTouchCalled(uid) ==
    /\ Len(calls) < MaxCalls
    /\ now' = now + 1
    /\ users' = handleUserTouch(users, uid, now + 1)
    /\ LET call == [Call("touchUser", uid, 0) EXCEPT !.pc = "returned"] IN
          /\ calls' = Append(calls, call)
          /\ CallReturned(call)
    /\ UNCHANGED <<LoggerClients, logWriters, logs, sessionLogs, authLogs, conversations, requests>>

TouchRest == UNCHANGED <<AuthExpireSecs, authVars, loginVars, adminVars, chatVars>>

\* Between the two runs of a call the model lets every other call run.
LogInsertCalled == TouchRest /\ \E uid \in KnownUids \cup {None} : logInsertCalled(uid)

SessionLogInsertCalled ==
    TouchRest /\ \E uid \in KnownUids \cup {NoUid} : sessionLogInsertCalled(uid, << >>)

InsertReturned == TouchRest /\ \E c \in DOMAIN calls : insertReturned(c)

UserTouchCalled == TouchRest /\ \E uid \in KnownUids \cup {NoUid} : userTouchCalled(uid)

TouchNext ==
    \/ LogInsertCalled
    \/ SessionLogInsertCalled
    \/ InsertReturned
    \/ UserTouchCalled

Init == AuthInit /\ LoginInit /\ StoreInit /\ AdminInit /\ ChatInit /\ TouchInit /\ AesMode = FALSE

SpecAuth == Init /\ [][AuthNext]_vars

SpecLogin == Init /\ [][LoginNext]_vars

SpecLog == Init /\ [][LogNext]_vars

SpecStore == Init /\ [][StoreNext]_vars

SpecQuery == QueryInit /\ [][QueryNext]_vars

\* env.AuthExpireSecs plays no part in the store.
SessionInit == Init /\ AuthExpireSecs = 2

SpecSession == SessionInit /\ [][SessionNext]_vars

SpecChat == SessionInit /\ [][ChatNext]_vars

SpecTouch == SessionInit /\ [][TouchNext]_vars

SpecRestart == SessionInit /\ [][RestartNext]_vars

DispatchInit ==
    /\ AuthInit /\ LoginInit /\ StoreInit /\ AdminInit /\ ChatInit /\ TouchInit
    /\ AuthExpireSecs = 2
    /\ AesMode \in BOOLEAN

SpecDispatch == DispatchInit /\ [][DispatchNext]_vars

\* The stream settles the writes of a client that reads.
SpecLogFair == SpecLog /\ WF_vars(LogWriteResolved)

\* The timers of the login channel fire: the 0 ms and 3000 ms timers, the
\* 500 ms timer that ends the race of every #writeSafe, the 200 ms timer that
\* ends the race of #closeConnection. What the client does is left open.
SpecLoginFair ==
    /\ SessionInit
    /\ [][LoginNext]_vars
    /\ WF_vars(ReadyTimer) /\ WF_vars(ReadyWritten)
    /\ WF_vars(HeartbeatNext) /\ WF_vars(HeartbeatWritten) /\ WF_vars(HeartbeatTimedOut)
    /\ WF_vars(QrcodeLoginWritten) /\ WF_vars(NoticeWritten) /\ WF_vars(CloseSettled)

\* ------------------------------------------------------------------ claims: auth-code broker

\* C1: in every reachable state the code->uid map and the uid->code map are
\* exact inverses: each live code maps to a uid that maps back to it, and each
\* uid with a code maps to a code that maps back to it.
C1_Bijection ==
    /\ \A c \in DOMAIN CodeUidMap :
          /\ CodeUidMap[c] \in DOMAIN UidCodeMap
          /\ UidCodeMap[CodeUidMap[c]] = c
    /\ \A u \in DOMAIN UidCodeMap :
          /\ UidCodeMap[u] \in DOMAIN CodeUidMap
          /\ CodeUidMap[UidCodeMap[u]] = u

\* The pairing (t.code, t.uid) is gone: neither direction of it remains.
PairingGone(t) ==
    /\ MapGet(CodeUidMap, t.code) # t.uid
    /\ MapGet(UidCodeMap, t.uid) # t.code

\* C2: the expiry action of a pairing that is already gone is a no-op: when it
\* fires it removes no entry of either map (every entry left belongs to a
\* pairing issued later).
C2_StaleExpiryIsNoOp ==
    [][(expireAuthCode /\ PairingGone(Head(expiryTimers)))
          => UNCHANGED <<CodeUidMap, UidCodeMap>>]_vars

\* C3: consumeCode of the code that issueCode(uid) has just returned returns
\* that uid and removes both directions in that step; consumeCode of the code
\* that consumeCode has just been given returns none.
C3_IssueThenConsume ==
    [][\A code \in Codes :
          handleGetUidByCode(code) =>
             /\ (authRet.op = "issue" /\ authRet.code = code) =>
                   /\ authRet'.uid = authRet.uid
                   /\ code \notin DOMAIN CodeUidMap'
                   /\ authRet.uid \notin DOMAIN UidCodeMap'
             /\ (authRet.op = "consume" /\ authRet.code = code) =>
                   authRet'.uid = None]_vars

\* The codes that redeem to uid: issued to it, not consumed, their TTL not elapsed.
LiveCodesOf(uid) == {c \in DOMAIN CodeUidMap : CodeUidMap[c] = uid}

\* C4: while a code of uid is live (neither consumed nor expired), issueCode(uid)
\* returns that code, changes neither map and schedules no expiry.
C4_IssueIdempotentWhileLive ==
    [][\A uid \in Uids :
          (handleGetCodeByUid(uid) /\ LiveCodesOf(uid) # {}) =>
             /\ authRet'.code \in LiveCodesOf(uid)
             /\ UNCHANGED <<CodeUidMap, UidCodeMap, expiryTimers>>]_vars

\* Every entry of either map has its own expiry still pending.
TTLBound ==
    /\ \A c \in DOMAIN CodeUidMap :
          \E i \in 1..Len(expiryTimers) :
             expiryTimers[i] = [code |-> c, uid |-> CodeUidMap[c]]
    /\ \A u \in DOMAIN UidCodeMap :
          \E i \in 1..Len(expiryTimers) :
             expiryTimers[i] = [code |-> UidCodeMap[u], uid |-> u]

\* C5: when the TTL of the pairing (c, uid) elapses, c leaves the code map and
\* uid leaves the uid map; a consumeCode(c) that follows returns none and
\* changes nothing; an issueCode(uid) that follows registers a fresh pairing
\* both ways and schedules its expiry; and no entry outlives its own TTL.
C5_ExpiredPairingIsForgotten ==
    /\ []TTLBound
    /\ [][/\ expireAuthCode =>
                /\ Head(expiryTimers).code \notin DOMAIN CodeUidMap'
                /\ Head(expiryTimers).uid \notin DOMAIN UidCodeMap'
          /\ \A code \in Codes :
                (handleGetUidByCode(code) /\ authRet.op = "expire" /\ authRet.code = code) =>
                   /\ authRet'.uid = None
                   /\ UNCHANGED <<CodeUidMap, UidCodeMap>>
          /\ \A uid \in Uids :
                (handleGetCodeByUid(uid) /\ authRet.op = "expire" /\ authRet.uid = uid) =>
                   /\ authRet'.fresh
                   /\ CodeUidMap'[authRet'.code] = uid
                   /\ UidCodeMap'[uid] = authRet'.code
                   /\ expiryTimers' =
                         Append(expiryTimers, [code |-> authRet'.code, uid |-> uid])]_vars

\* An unconsumed pairing expired and the next issueCode of its uid registered a
\* fresh one.
C5_Witness ==
    /\ authPrev.op = "expire"
    /\ authRet.op = "issue"
    /\ authRet.uid = authPrev.uid
    /\ authRet.fresh
    /\ MapGet(UidCodeMap, authRet.uid) = authRet.code
    /\ expiryTimers # << >>
    /\ expiryTimers[Len(expiryTimers)] = [code |-> authRet.code, uid |-> authRet.uid]

\* ------------------------------------------------------------------ claims: login push-stream registry

Codes200(q) == {i \in 1..Len(q) : q[i].code = 200}

\* C6: on every writer, a success event (code 200) is followed by nothing but
\* one closing notice (code -1): there is at most one success event, and after
\* it at most one more event, which is the closing notice.
C6_SuccessThenCloseOnly ==
    \A w \in ConnIds :
       \A i \in Codes200(writers[w].sink) :
          /\ i >= Len(writers[w].sink) - 1
          /\ \A j \in (i + 1)..Len(writers[w].sink) : writers[w].sink[j].code = -1

\* C7: a handleQrcodeLogin call whose write of the success event did not
\* succeed does not return the login-success outcome.
C7_FailedWriteIsReported ==
    pushRet.written = "false" => pushRet.ret # LoginOk

\* C8: handleQrcodeLogin on a ticket that is not registered returns the
\* "expired" outcome, writes to no writer, and leaves the registry, every
\* writer, every heartbeat and every pending teardown as they were.
C8_UnknownTicketExpired ==
    [][\A ticket \in Tickets, uid \in Uids :
          (handleQrcodeLogin(ticket, uid) /\ ticket \notin DOMAIN Clients) =>
             /\ pushRet'.ret = Expired
             /\ pushRet'.ticket = ticket
             /\ UNCHANGED <<Clients, writers, closeTasks, heartbeats, readyWrites, pushes>>]_vars

\* A call on an unregistered ticket returned "expired" while a connection under
\* another ticket is registered, open, and has events written to it.
C8_Witness ==
    /\ pushRet.ret = Expired
    /\ pushRet.ticket \notin DOMAIN Clients
    /\ \E t \in DOMAIN Clients :
          /\ writers[Clients[t]].state = "open"
          /\ writers[Clients[t]].sink # << >>

\* The data of the code-300 events of a sink, in order.
RECURSIVE Beats(_)
Beats(q) ==
    IF q = << >> THEN << >>
    ELSE IF Head(q).code = 300 THEN <<Head(q).data>> \o Beats(Tail(q))
    ELSE Beats(Tail(q))

\* C9: a writer that was sent no success event, with no write failed and no
\* abort, holds heartbeat events with the counts 1, 2, ..., k in order,
\* k <= #MaxTimes, at most one timeout event (code 400), and no heartbeat
\* after the timeout event.
C9_HeartbeatsThenTimeout ==
    \A w \in ConnIds :
       LET q == writers[w].sink IN
       (faults = 0 /\ Codes200(q) = {}) =>
          /\ \A i \in 1..Len(Beats(q)) : Beats(q)[i] = i
          /\ Len(Beats(q)) <= MaxTimes
          /\ Cardinality({i \in 1..Len(q) : q[i].code = 400}) <= 1
          /\ \A i, j \in 1..Len(q) : (q[i].code = 400 /\ i < j) => q[j].code # 300

\* C10: once the timeout event (code 400) is written to a writer, no success
\* event and no heartbeat event is written to it.
C10_NothingAfterTimeout ==
    \A w \in ConnIds :
       LET q == writers[w].sink IN
       \A i, j \in 1..Len(q) : (q[i].code = 400 /\ i < j) => q[j].code \notin {200, 300}

\* The ticket of connection c leads to its writer.
Registered(c) ==
    /\ writers[c].ticket \in DOMAIN Clients
    /\ Clients[writers[c].ticket] = c

\* C11: a connection whose client abort has been handled is no longer
\* registered: from that step on its ticket does not lead to its writer, so a
\* handleQrcodeLogin or heartbeat tick that runs afterwards finds no live
\* connection.
C11_AbortRemovesAtOnce ==
    \A c \in ConnIds : writers[c].aborted => ~Registered(c)

\* Connection c was removed by another path: its writer was torn down and its
\* ticket no longer leads to it.
Removed(c) ==
    /\ writers[c].state # "open"
    /\ ~Registered(c)

\* C12: a heartbeat tick of a connection that was removed by another path
\* writes no event to any writer and schedules no further tick, also when the
\* same ticket value has been registered for a new connection since.
C12_HeartbeatStopsOnRemoval ==
    [][\A c \in ConnIds :
          (heartbeatNext(c) /\ Removed(c)) =>
             /\ UNCHANGED writers
             /\ heartbeats'[c].pc = "done"]_vars

\* After a failed write on writer w: the writer is torn down, and no other
\* writer or registration is touched.
OnlyTornDown(w) ==
    /\ writers'[w].state # "open"
    /\ \A v \in ConnIds \ {w} : writers'[v] = writers[v]
    /\ \A t \in DOMAIN Clients :
          Clients[t] # w => (t \in DOMAIN Clients' /\ Clients'[t] = Clients[t])

\* After a failed write on writer w that was still writable: the closing
\* notice is the last chunk handed to it.
NoticeAttempted(w) ==
    writers[w].state = "open" =>
       /\ writers'[w].sink # << >>
       /\ writers'[w].sink[Len(writers'[w].sink)].code = -1

\* C13: when a write to a login connection (code 100, 300, 400, 200 or the
\* closing notice) loses its race against the timer or is rejected, a closing
\* notice is attempted on that writer (unless the failed write was the
\* notice), and that writer and only that writer is torn down.
C13_FailedWriteTearsDown ==
    [][\A outcome \in Outcomes \ {"ok"} :
          /\ \A c \in ConnIds :
                /\ readyWritten(c, outcome) =>
                      OnlyTornDown(readyWrites[c].w) /\ NoticeAttempted(readyWrites[c].w)
                /\ heartbeatWritten(c, outcome) =>
                      OnlyTornDown(heartbeats[c].w) /\ NoticeAttempted(heartbeats[c].w)
                /\ heartbeatTimedOut(c, outcome) =>
                      OnlyTornDown(heartbeats[c].w) /\ NoticeAttempted(heartbeats[c].w)
          /\ \A p \in 1..Len(pushes) :
                qrcodeLoginWritten(p, outcome) =>
                   OnlyTornDown(pushes[p].w) /\ NoticeAttempted(pushes[p].w)
          /\ \A ticket \in Tickets, w \in ConnIds :
                noticeWritten(ticket, w, outcome) => OnlyTornDown(w)]_vars

\* ------------------------------------------------------------------ claims: log channel and persisted store

LogRegistered(l) ==
    /\ l \in ListenerIds
    /\ logWriters[l].clientId \in DOMAIN LoggerClients
    /\ LoggerClients[logWriters[l].clientId] = l

\* A write to listener l is pending and will never complete: the client holds
\* the connection and does not read.
StalledWrite(l) ==
    /\ LogRegistered(l)
    /\ logWriters[l].pending > 0
    /\ ~logWriters[l].reads

\* C14: every write to a log-channel listener (the "connected"
\* acknowledgement and each broadcast frame) has an upper time bound: a
\* listener with a write that never completes is eventually removed from
\* #LoggerClients without the client's help.
C14_LogWritesAreBounded ==
    \A l \in 1..MaxListeners :
       [](StalledWrite(l) => <>~LogRegistered(l))

\* C15: a broadcast removes exactly the listeners whose write is rejected and
\* hands the frame to every other registered listener, which stays
\* registered; the insert that triggered it returns its id; and a write that
\* is rejected later removes only its own listener and changes no other
\* writer.
C15_BroadcastIsolation ==
    [][/\ \A uid \in Uids \cup {None, NoUid} :
             (handleLogInsert(uid) \/ handleSessionLogInsert(uid, << >>)) =>
                /\ storeRet'.ret >= 1
                /\ \A l \in ListenerIds :
                      IF LogRegistered(l) /\ Writable(l)
                      THEN /\ LogRegistered(l)'
                           /\ Len(logWriters'[l].sink) = Len(logWriters[l].sink) + 1
                           /\ logWriters'[l].sink[Len(logWriters'[l].sink)].id = storeRet'.ret
                      ELSE /\ ~LogRegistered(l)'
                           /\ logWriters'[l] = logWriters[l]
       /\ \A l \in ListenerIds :
             logStreamErrored(l) =>
                \A m \in ListenerIds \ {l} :
                   /\ LogRegistered(m)' = LogRegistered(m)
                   /\ logWriters'[m] = logWriters[m]]_vars

\* One broadcast saw the write to one listener rejected and handed the frame
\* to another.
C15_Witness ==
    /\ storeRet.failed >= 1
    /\ storeRet.sent >= 1
    /\ storeRet.ret >= 1
    /\ \E l \in ListenerIds :
          /\ LogRegistered(l)
          /\ logWriters[l].sink[Len(logWriters[l].sink)].id = storeRet.ret

MsgCount(U, uid) == IF uid \in DOMAIN U THEN U[uid].msgCount ELSE 0

C17_BroadcastFailureNeverFailsInsert ==
    [][/\ \A uid \in Uids \cup {None, NoUid} :
             /\ handleLogInsert(uid) =>
                   /\ logs' = Append(logs, [id |-> Len(logs) + 1, uid |-> uid])
                   /\ storeRet'.ret = Len(logs) + 1
                   /\ Truthy(uid) => users'[uid].msgCount = MsgCount(users, uid) + 1
             /\ handleSessionLogInsert(uid, << >>) =>
                   /\ sessionLogs' = Append(sessionLogs, [id |-> Len(sessionLogs) + 1, uid |-> uid,
                                                          steps |-> <<"[", "]">>])
                   /\ storeRet'.ret = Len(sessionLogs) + 1
                   /\ Truthy(uid) => users'[uid].msgCount = MsgCount(users, uid) + 1
       /\ \A l \in ListenerIds :
             logStreamErrored(l) => UNCHANGED <<logs, sessionLogs, users, storeRet>>]_vars

\* An insert with a uid returned its id although every listener registered at
\* the time (there was one) rejected its write.
C17_Witness ==
    /\ storeRet.op = "insertLog"
    /\ storeRet.failed >= 1
    /\ storeRet.sent = 0
    /\ storeRet.ret = Len(logs)
    /\ Truthy(storeRet.uid)
    /\ storeRet.uid \in DOMAIN users

LlmTokens(U, uid) == IF uid \in DOMAIN U THEN U[uid].llmTokens ELSE 0

\* C18: when the text-message path obtains an LLM reply with a total token
\* count n > 0 for uid, the `users` row of uid holds llm_tokens n greater
\* than before, also on the first request of that uid.
C18_TokensAreCounted ==
    [][\A r \in RequestIds, tokens \in TokenCounts \ {0}, reply \in Contents :
          actionTextReplied(r, tokens, reply) =>
             /\ requests[r].uid \in DOMAIN users'
             /\ users'[requests[r].uid].llmTokens = LlmTokens(users, requests[r].uid) + tokens]_vars

AuthCount(U, uid) == IF uid \in DOMAIN U THEN U[uid].authCount ELSE 0

\* C19: handleAuthLogInsert always appends the record and returns its id; with
\* success the uid's auth_count is one more than before and last_auth is the
\* time of the call; without success `users` is unchanged.
C19_AuthRecordCounts ==
    [][\A uid \in Uids, success \in BOOLEAN :
          handleAuthLogInsert(uid, success) =>
             /\ authLogs' = Append(authLogs, [id |-> Len(authLogs) + 1, uid |-> uid,
                                              success |-> success])
             /\ storeRet'.ret = Len(authLogs) + 1
             /\ IF success
                THEN /\ uid \in DOMAIN users'
                     /\ users'[uid].authCount = AuthCount(users, uid) + 1
                     /\ users'[uid].lastAuth = now'
                ELSE users' = users]_vars

\* No row of `conversations` has empty content.
NoEmptyConversation == \A i \in 1..Len(conversations) : conversations[i].content # ""

\* C20: logConversation with empty content persists no row and returns the
\* sentinel 0, which is no row's id; with non-empty content it persists
\* exactly one row and returns that row's id; and on no path does a row with
\* empty content reach `conversations`.
C20_EmptyContentIsSkipped ==
    /\ []NoEmptyConversation
    /\ [][\A uid \in Uids, role \in Roles, content \in Contents :
             logConversation(uid, role, content) =>
                IF content = ""
                THEN /\ conversations' = conversations
                     /\ storeRet'.ret = Skipped
                     /\ \A i \in 1..Len(conversations) : conversations[i].id # Skipped
                ELSE /\ conversations' = Append(conversations,
                           [id |-> storeRet'.ret, uid |-> uid, role |-> role, content |-> content])
                     /\ storeRet'.ret = Len(conversations) + 1]_vars

\* A logConversation call with empty content returned the sentinel while the
\* table holds a row of an earlier call.
C20_Witness ==
    /\ storeRet.op = "logConversation"
    /\ storeRet.ret = Skipped
    /\ conversations # << >>

\* ------------------------------------------------------------------ claims: the query family

\* The last call was queryLogs with a type and at most a limit.
TypeAndLimitOnly ==
    /\ queryRet.op = "queryLogs"
    /\ Truthy(queryRet.filter.type)
    /\ ~Truthy(queryRet.filter.uid)
    /\ ~NumTruthy(queryRet.filter.startTime)
    /\ ~NumTruthy(queryRet.filter.endTime)
    /\ ~NumTruthy(queryRet.filter.offset)

Descending(rows) == \A i, j \in DOMAIN rows : i < j => rows[i].timestamp >= rows[j].timestamp

\* The rows of T that are not among `rows`.
LeftOut(T, rows) == {i \in DOMAIN T : \A j \in DOMAIN rows : rows[j] # T[i]}

\* C21: queryLogs({type: t, limit: L}) with L > 0 returns at most L rows, all
\* of them rows of the table of type t, in descending timestamp order, and
\* they are the L most recent rows of type t (as many as min(L, rows of type
\* t), none of them older than a row of type t left out); a queryLogs with no
\* limit returns at most 100 rows.
C21_QueryLogsTypeAndLimit ==
    /\ (TypeAndLimitOnly /\ NumTruthy(queryRet.filter.limit) /\ queryRet.filter.limit.n > 0) =>
          LET t == queryRet.filter.type
              L == queryRet.filter.limit.n
              rows == queryRet.rows
              matching == {i \in DOMAIN logs : logs[i].type = t}
          IN /\ Len(rows) <= L
             /\ \A j \in DOMAIN rows : rows[j].type = t /\ \E i \in matching : logs[i] = rows[j]
             /\ \A j, k \in DOMAIN rows : j # k => rows[j] # rows[k]
             /\ Descending(rows)
             /\ Len(rows) = (IF Cardinality(matching) < L THEN Cardinality(matching) ELSE L)
             /\ \A i \in matching \cap LeftOut(logs, rows) :
                   \A j \in DOMAIN rows : logs[i].timestamp <= rows[j].timestamp
    /\ (queryRet.op = "queryLogs" /\ queryRet.filter.limit = Absent) =>
          Len(queryRet.rows) <= DefaultLimit

\* A limit of 2 cuts the 102 "error" rows of BigLogs down to two, the newest.
C21_Witness ==
    /\ TypeAndLimitOnly
    /\ logs = BigLogs
    /\ queryRet.filter.type = "error"
    /\ queryRet.filter.limit = Num(2)
    /\ Len(queryRet.rows) = 2
    /\ queryRet.rows[1].timestamp = MaxTime

\* The key a query of the family orders by: `last_seen` in `users`, `timestamp`
\* in the other tables.
OrderKey(r) == IF "lastSeen" \in DOMAIN r THEN r.lastSeen ELSE r.timestamp

NewestFirst(rows) == \A i, j \in DOMAIN rows : i < j => OrderKey(rows[i]) >= OrderKey(rows[j])

FamilyQueries ==
    {"queryLogs", "queryConversationsByUser", "queryUsers", "queryAuthRecords", "querySessionLogs"}

\* C22: every query of the family (queryLogs, queryConversationsByUser,
\* queryUsers, queryAuthRecords, querySessionLogs) returns its rows ordered by
\* timestamp descending, the most recent row first.
C22_FamilyNewestFirst == queryRet.op \in FamilyQueries => NewestFirst(queryRet.rows)

\* The same for the family without queryConversationsByUser.
C22_OthersNewestFirst ==
    queryRet.op \in FamilyQueries \ {"queryConversationsByUser"} => NewestFirst(queryRet.rows)

\* A pagination parameter that is present and has no leading digit.
NonNumeric(s) == s # << >> /\ ParseInt(s) = NaN

\* What the route of the last admin API call returns for the parameters p.
ApiRows(p) ==
    CASE queryRet.op = "apiLogs" -> handleLogQuery(logs, apiLogsFilter(p), queryRet.tieAsc)
      [] queryRet.op = "apiUsers" -> handleUserList(users, apiUsersFilter(p), queryRet.tieAsc)
      [] queryRet.op = "apiAuth" -> handleAuthLogQuery(authLogs, apiAuthFilter(p), queryRet.tieAsc)

ApiCalls == {"apiLogs", "apiUsers", "apiAuth"}

\* An unknown value of the enum-valued parameter gives the rows of the call
\* without that parameter.
UnknownEnumIsAbsent ==
    /\ (queryRet.op = "apiLogs" /\ queryRet.filter.type \notin LogTypes \cup {None}) =>
          queryRet.rows = ApiRows([queryRet.filter EXCEPT !.type = None])
    /\ (queryRet.op = "apiUsers" /\ queryRet.filter.status \notin {"active", "banned", None}) =>
          queryRet.rows = ApiRows([queryRet.filter EXCEPT !.status = None])
    /\ (queryRet.op = "apiAuth" /\ queryRet.filter.authType \notin {"scan", "code", "verify", None}) =>
          queryRet.rows = ApiRows([queryRet.filter EXCEPT !.authType = None])

\* A non-numeric limit or offset gives the rows of the call without it.
NonNumericPaginationIsAbsent ==
    queryRet.op \in ApiCalls =>
       /\ NonNumeric(queryRet.filter.limit) =>
             queryRet.rows = ApiRows([queryRet.filter EXCEPT !.limit = << >>])
       /\ NonNumeric(queryRet.filter.offset) =>
             queryRet.rows = ApiRows([queryRet.filter EXCEPT !.offset = << >>])

\* C23: malformed filter input is treated as absent: a query whose limit or
\* offset is non-numeric, or whose log type, user status or authType holds an
\* unknown value, returns the rows of the same query with that field omitted.
C23_MalformedIsAbsent == UnknownEnumIsAbsent /\ NonNumericPaginationIsAbsent

\* ------------------------------------------------------------------ claims: SessionLog

\* C24: a SessionLog inserted with N steps, retrieved by the id its insert
\* returned, has exactly N steps with the same stage names, durations and
\* success flags in the original order.
C24_StepsRoundTrip ==
    [][\A c \in DOMAIN sessionCalls :
          sessionLogDetail(sessionCalls[c].id) =>
             /\ Len(queryRet'.rows) = 1
             /\ Len(queryRet'.rows[1].steps) = Len(sessionCalls[c].steps)
             /\ \A k \in DOMAIN sessionCalls[c].steps :
                   /\ queryRet'.rows[1].steps[k].stage = sessionCalls[c].steps[k].stage
                   /\ queryRet'.rows[1].steps[k].duration = sessionCalls[c].steps[k].duration
                   /\ queryRet'.rows[1].steps[k].success = sessionCalls[c].steps[k].success]_vars

\* Two steps that differ in stage, duration and success, read back from the
\* second of two rows.
C24_Witness ==
    /\ queryRet.op = "sessionLogDetail"
    /\ queryRet.filter = 2
    /\ Len(sessionCalls) = 2
    /\ Len(queryRet.rows) = 1
    /\ queryRet.rows[1].steps =
          << [stage |-> <<"d", "b">>, success |-> TRUE, duration |-> Num(12)],
             [stage |-> <<"l", "l", "m">>, success |-> FALSE, duration |-> Absent] >>
    /\ sessionCalls[2].steps = queryRet.rows[1].steps
    /\ sessionCalls[1].steps # sessionCalls[2].steps

\* ------------------------------------------------------------------ C28 .. C30

RowOf(uid, msg) == [uid |-> uid, role |-> msg.role, content |-> msg.content]

\* What append(uid, m) is to return: [system preamble, m] without a history,
\* the history followed by m with one.
Appended(uid, m) ==
    IF uid \in DOMAIN ChatHistory THEN ChatHistory[uid] \o <<m>> ELSE <<Preamble, m>>

\* C28: append(uid, m) returns [system preamble, m] on a uid with no history
\* and h followed by m on a uid with history h, and persists exactly the row
\* of m; after clear(uid) on a uid with history the next append(uid, m)
\* returns [system preamble, m] again.
C28_AppendAndClear ==
    [][\A uid \in ChatUids, m \in ChatMessages :
          /\ handleUpdateChatHistory(uid, m) =>
                /\ chatRet'.history = Appended(uid, m)
                /\ messages' = Append(messages, RowOf(uid, m))
          /\ (handleClearChatHistory(uid) /\ uid \in DOMAIN ChatHistory) =>
                Appended(uid, m)' = <<Preamble, m>>]_vars

\* C28 for the uids that hold no quote.
C28_OpenIdAppendAndClear ==
    [][\A uid \in Uids, m \in ChatMessages :
          /\ handleUpdateChatHistory(uid, m) =>
                /\ chatRet'.history = Appended(uid, m)
                /\ messages' = Append(messages, RowOf(uid, m))
          /\ (handleClearChatHistory(uid) /\ uid \in DOMAIN ChatHistory) =>
                Appended(uid, m)' = <<Preamble, m>>]_vars

RowsOfOthers(rows, uid) == SelectSeq(rows, LAMBDA row : row.uid # uid)

\* C29: clear(uid) deletes every row of the uid and drops its cache entry,
\* leaves the rows and the cache entries of every other uid as they were, and
\* returns the "nothing to forget" acknowledgement exactly when the uid had no
\* cache entry before the call.
C29_ClearFrame ==
    [][\A uid \in ChatUids :
          handleClearChatHistory(uid) =>
             /\ \A k \in DOMAIN messages' : messages'[k].uid # uid
             /\ uid \notin DOMAIN ChatHistory'
             /\ RowsOfOthers(messages', uid) = RowsOfOthers(messages, uid)
             /\ \A other \in ChatUids \ {uid} : MapGet(ChatHistory', other) = MapGet(ChatHistory, other)
             /\ (chatRet'.text = NothingToForget) <=> (uid \notin DOMAIN ChatHistory)]_vars

\* C29 for the uids that hold no quote.
C29_OpenIdClearFrame ==
    [][\A uid \in Uids :
          handleClearChatHistory(uid) =>
             /\ \A k \in DOMAIN messages' : messages'[k].uid # uid
             /\ uid \notin DOMAIN ChatHistory'
             /\ RowsOfOthers(messages', uid) = RowsOfOthers(messages, uid)
             /\ \A other \in ChatUids \ {uid} : MapGet(ChatHistory', other) = MapGet(ChatHistory, other)
             /\ (chatRet'.text = NothingToForget) <=> (uid \notin DOMAIN ChatHistory)]_vars

\* C30: lastAssistantReply(uid) returns the content of the assistant message
\* with the highest index of the uid's history, one sentinel when the uid has
\* no history, another when the history holds no assistant message, and
\* changes neither the cache nor the table.
C30_LastAssistantReply ==
    [][\A uid \in ChatUids :
          handleGetLastChatContent(uid) =>
             LET assistants == IF uid \in DOMAIN ChatHistory
                               THEN {i \in DOMAIN ChatHistory[uid] : ChatHistory[uid][i].role = "assistant"}
                               ELSE {}
             IN /\ NoHistory # NoAssistant
                /\ uid \notin DOMAIN ChatHistory => chatRet'.text = NoHistory
                /\ (uid \in DOMAIN ChatHistory /\ assistants = {}) => chatRet'.text = NoAssistant
                /\ \A i \in assistants :
                      (\A j \in assistants : j <= i) => chatRet'.text = ChatHistory[uid][i].content
                /\ UNCHANGED <<ChatHistory, messages>>]_vars

\* lastAssistantReply returned the later of two assistant messages, with a
\* user message after both.
C30_Witness ==
    /\ chatRet.op = "lastAssistantReply"
    /\ chatRet.text = "yo"
    /\ chatRet.uid \in DOMAIN ChatHistory
    /\ ChatHistory[chatRet.uid] =
          <<Preamble, [role |-> "assistant", content |-> "ok"],
            [role |-> "assistant", content |-> "yo"], [role |-> "user", content |-> "hi"]>>

\* ------------------------------------------------------------------ C25 .. C27

\* The handler of the request is through: it returned a reply or it threw.
Finished(q) == q.pc \in {"returned", "threw"}

\* A call of the Durable or of the LLM threw during the request.
ThrewIn(q) == \E i \in DOMAIN q.trace : q.trace[i] \in {"throw", CommandFailed}

\* The replies that tell a failure and nothing else.
GenericFailures == {Oops, Failed, CommandFailed}

\* C25: every message that reaches action() has its recorder's commit
\* dispatched exactly once when its handler is through, on the event, command,
\* LLM and unsupported-type paths alike, and never twice.
C25_ExactlyOneCommit ==
    \A r \in InboundIds :
        /\ inbound[r].commits <= 1
        /\ Finished(inbound[r]) => inbound[r].commits = 1

\* No request commits twice, and a handler that returns after building a
\* pipeline has committed once.
C25_PipelineCommitsOnce ==
    \A r \in InboundIds :
        /\ inbound[r].commits <= 1
        /\ (inbound[r].pc = "returned" /\ inbound[r].steps # << >>) => inbound[r].commits = 1

\* C26: a request during which a storage or LLM call threw is answered with a
\* generic failure response and has committed a SessionLog holding a stage
\* with success = false.
C26_FailureAnsweredAndRecorded ==
    \A r \in InboundIds :
        (Finished(inbound[r]) /\ ThrewIn(inbound[r])) =>
            /\ inbound[r].reply \in GenericFailures
            /\ inbound[r].commits = 1
            /\ \E i \in DOMAIN inbound[r].log : ~inbound[r].log[i].success

\* C26 for the calls inside the try block of actionText.
C26_LlmBranchFailure ==
    \A r \in InboundIds :
        (Finished(inbound[r]) /\ ThrewIn(inbound[r]) /\ inbound[r].msg.Content = "hi") =>
            /\ inbound[r].reply = Oops
            /\ inbound[r].commits = 1
            /\ \E i \in DOMAIN inbound[r].log :
                  inbound[r].log[i].stage = error /\ ~inbound[r].log[i].success

\* Two runs of one request: the same sender, message and results of the
\* awaited calls.
SameRequest(p, q) == p.uid = q.uid /\ p.msg = q.msg /\ p.trace = q.trace

\* C27: the outcome of the insert dispatched by commitAsync never changes a
\* reply, a reply is produced while that insert is at most pending, and two
\* finished runs of the same request have the same reply whatever became of
\* their inserts.
C27_CommitDoesNotInfluenceReply ==
    [][/\ \A r \in InboundIds :
             /\ inbound[r].insert # inbound'[r].insert =>
                    \/ inbound[r].insert = "none" /\ inbound'[r].insert = "pending"
                    \/ inbound'[r].reply = inbound[r].reply /\ inbound'[r].pc = inbound[r].pc
             /\ (inbound[r].reply = None /\ inbound'[r].reply # None) =>
                    inbound'[r].insert \in {"none", "pending"}
       /\ \A r1, r2 \in 1..Len(inbound') :
             (Finished(inbound'[r1]) /\ Finished(inbound'[r2]) /\ SameRequest(inbound'[r1], inbound'[r2]))
                => inbound'[r1].reply = inbound'[r2].reply]_vars

\* Two runs of the same text message, one whose insert was stored and one
\* whose insert failed, both answered.
C27_Witness ==
    \E r1, r2 \in InboundIds :
        /\ SameRequest(inbound[r1], inbound[r2])
        /\ inbound[r1].msg.MsgType = "text"
        /\ inbound[r1].insert = "stored"
        /\ inbound[r2].insert = "failed"
        /\ inbound[r1].reply # None
        /\ inbound[r1].reply = inbound[r2].reply

\* ------------------------------------------------------------------ C31 .. C37

\* C31: the ticket handleAcceptSSE registers is in no entry of the registry
\* at that moment, so every ticket registered before keeps its writer.
C31_UniqueTicket ==
    [][\A ticket \in Tickets :
          handleAcceptSSE(ticket) =>
             /\ ticket \notin DOMAIN Clients
             /\ \A t \in DOMAIN Clients : Clients'[t] = Clients[t]]_vars

\* The calls that carry uid, and those of them that have returned.
Carrying(uid) == {c \in DOMAIN calls : calls[c].uid = uid}

Completed(op, uid) ==
    Cardinality({c \in Carrying(uid) : calls[c].op = op /\ calls[c].pc = "returned"})

\* C32: when every call that carried a uid has returned, in whatever order the
\* calls ran and resumed, table `users` holds the row of that uid and its
\* msg_count is the number of those calls.
C32_NoLostUpdate ==
    \A uid \in Uids :
       (Carrying(uid) # {} /\ \A c \in Carrying(uid) : calls[c].pc = "returned") =>
          /\ uid \in DOMAIN users
          /\ users[uid].msgCount = Cardinality(Carrying(uid))

\* Two insert calls with the same uid, unseen before them, were in flight at
\* once, the second returned before the first, and the row counts both.
C32_Witness ==
    /\ Len(calls) >= 2
    /\ calls[1].uid = calls[2].uid
    /\ calls[1].op = "insertLog" /\ calls[2].op = "insertSessionLog"
    /\ calls[2].overlaps = 1
    /\ calls[1].pc = "awaiting" /\ calls[2].pc = "returned"
    /\ users[calls[1].uid].msgCount = 2

\* C33 as stated: msg_count is the number of insert calls with that uid that
\* have returned plus the number of direct touches, and a row exists exactly
\* for the uids for which that number is positive.
C33_CountsCompletedCalls ==
    \A uid \in Uids \cup {NoUid} :
       LET n == Completed("insertLog", uid) + Completed("insertSessionLog", uid)
                + Completed("touchUser", uid) IN
          /\ MsgCount(users, uid) = n
          /\ uid \in DOMAIN users <=> n > 0

\* The calls whose touch has run: a direct touch of any uid, an insert with a
\* uid that is not empty, returned or not.
Touched(uid) ==
    {c \in Carrying(uid) : calls[c].op = "touchUser" \/ Truthy(uid)}

\* C33, amended: msg_count is the number of calls with that uid whose touch has
\* run, and a row exists exactly for the uids with such a call.
C33_CountsTouches ==
    \A uid \in Uids \cup {NoUid} :
       /\ MsgCount(users, uid) = Cardinality(Touched(uid))
       /\ uid \in DOMAIN users <=> Touched(uid) # {}

\* One uid was touched by an insert of each kind and by a direct call, and an
\* insert with the empty uid has returned.
C33_Witness ==
    /\ Len(calls) >= 3
    /\ \E a, b \in DOMAIN calls :
          /\ a # b
          /\ calls[a].uid = calls[b].uid
          /\ calls[a].op = "touchUser" /\ calls[b].op # "touchUser"
          /\ users[calls[a].uid].msgCount = 2
    /\ \E c \in DOMAIN calls : calls[c].uid = NoUid /\ calls[c].op = "insertSessionLog"

\* C34: a restart leaves the cache of chat histories as it was, every cached
\* history begins with the system preamble, and every append returns a
\* sequence that begins with it.
C34_RestartKeepsHistories ==
    [][/\ constructor => ChatHistory' = ChatHistory
       /\ \A uid \in DOMAIN ChatHistory' : ChatHistory'[uid][1] = Preamble
       /\ \A uid \in ChatUids, msg \in ChatMessages :
             handleUpdateChatHistory(uid, msg) => chatRet'.history[1] = Preamble]_vars

\* The positions of the closing notices (code -1) in the sink of writer w.
Notices(w) == {i \in 1..Len(writers[w].sink) : writers[w].sink[i].code = -1}

\* C36: whatever teardown paths run and however they interleave, the sink of
\* a login connection holds at most one closing notice and nothing after it.
C36_TornDownOnce ==
    \A w \in ConnIds :
       /\ Cardinality(Notices(w)) <= 1
       /\ \A i \in Notices(w) : i = Len(writers[w].sink)

\* handleLoggerSSE has not returned its Response for listener l.
Opening(l) == l \in ListenerIds /\ logWriters[l].pc = "welcome"

\* C37: every handleLoggerSSE call returns its Response, also for a client
\* that takes nothing from the stream before it has the Response, and the
\* abort listener leaves the clientId out of the registry.
C37_LogChannelOpens ==
    /\ \A l \in 1..MaxListeners : [](Opening(l) => <>~Opening(l))
    /\ [][\A l \in ListenerIds :
             loggerAbort(l) => logWriters[l].clientId \notin DOMAIN LoggerClients']_vars

\* Connection c exists and is registered.
Live(c) == c \in ConnIds /\ Registered(c)

\* The model has written all the chunks its bound lets it write.
OutOfWrites == Written(writers) >= MaxWrites

====
